---- MODULE Spec2Model ----
(***************************************************************************)
(* Lucky Ponds indexer: the Ingestion Engine (indexer.py) that follows the *)
(* chain and stores decoded events, and the Ledger Calculator              *)
(* (points_calculator.py, referral_system.py) that turns stored events     *)
(* into points and referral bonuses.                                       *)
(***************************************************************************)
EXTENDS Integers, Sequences, FiniteSets, TLC

(***************************************************************************)
(* Program constants                                                       *)
(***************************************************************************)
START_BLOCK == 0
min_batch_size == 10
max_batch_size == 500
REORG_MARGIN == 5
TOSS_POINTS_MULTIPLIER == 10
WIN_POINTS == 100
REFERRAL_BONUS_POINTS == 20

(***************************************************************************)
(* Bounds of the model                                                     *)
(***************************************************************************)
INITIAL_BATCH_SIZE == 12   \* the configured BLOCK_BATCH_SIZE
Head0 == 8          \* chain head when the engine starts
HeadStep == 6       \* growth of the chain between two reads of the head
MaxHead == 26       \* the chain head stops growing here
MaxFailures == 2    \* upstream / storage failures injected per behaviour
MaxCrashes == 1     \* process crashes (followed by a restart) per behaviour

NoAddr == "none"

(***************************************************************************)
(* The chain: the logs the contract emitted, in chain order.  get_logs     *)
(* returns the logs of a block range in this order.                        *)
(***************************************************************************)
TrackedKinds ==
    {"CoinTossed", "LuckyWinnerSelected", "PondAction", "ConfigChanged", "EmergencyAction"}

MkLog(kind, tx, pond, addr, cfg, block, amount) ==
    [kind |-> kind, tx |-> tx, pond |-> pond, addr |-> addr, cfg |-> cfg,
     block |-> block, amount |-> amount]

ChainLogSeq ==
    << MkLog("CoinTossed", "t1", "p1", "a1", "", 3, 5),
       MkLog("LuckyWinnerSelected", "t2", "p1", "a1", "", 3, 0),
       MkLog("RoleGranted", "t3", "", "a2", "", 9, 0),
       MkLog("CoinTossed", "t4", "p1", "a2", "", 12, 130),
       MkLog("PondAction", "t5", "p2", "", "", 12, 0),
       MkLog("ConfigChanged", "t6", "p2", "", "fee", 16, 0),
       MkLog("EmergencyAction", "t7", "p2", "a1", "", 20, 7) >>

\* w3.eth.get_logs({'fromBlock': s, 'toBlock': e, ...}) when the call succeeds
LogsInRange(s, e) == SelectSeq(ChainLogSeq, LAMBDA l : l.block >= s /\ l.block <= e)

\* block.timestamp of w3.eth.get_block(b)
BlockTimestamp(b) == 1000 + b

(***************************************************************************)
(* Event Store                                                             *)
(***************************************************************************)
\* event_abi().process_log(log) succeeds for exactly one tracked signature
Decodable(log) == log.kind \in TrackedKinds

\* the UNIQUE(...) constraint of each event table
NaturalKey(log) ==
    CASE log.kind = "CoinTossed"          -> <<log.tx, log.pond, log.addr>>
      [] log.kind = "LuckyWinnerSelected" -> <<log.tx, log.pond>>
      [] log.kind = "PondAction"          -> <<log.tx, log.pond>>
      [] log.kind = "ConfigChanged"       -> <<log.tx, log.cfg, log.pond>>
      [] log.kind = "EmergencyAction"     -> <<log.tx, log.pond, log.addr>>
      [] OTHER                            -> <<log.tx>>

Range(seq) == {seq[i] : i \in 1..Len(seq)}

KeysOf(table) == {r.key : r \in Range(table)}

\* args.get('participant', args.get('frog', None)) is None: the helper returns
\* without inserting
MissingParticipant(log) ==
    log.kind \in {"CoinTossed", "LuckyWinnerSelected"} /\ log.addr = NoAddr

\* faulty variant: the table has no UNIQUE constraint, every insert adds a row
InsertRowNoUnique(table, log, ts) ==
    Append(table,
           [id |-> Len(table) + 1, key |-> NaturalKey(log), kind |-> log.kind,
            tx |-> log.tx, pond |-> log.pond, addr |-> log.addr,
            amount |-> log.amount, block_number |-> log.block,
            block_timestamp |-> ts, points_processed |-> 0])

\* INSERT INTO <table> ... ; sqlite3.IntegrityError on a duplicate natural key
\* is caught and the row is discarded
InsertRow(table, log, ts) ==
    IF NaturalKey(log) \in KeysOf(table)
    THEN table
    ELSE Append(table,
                [id |-> Len(table) + 1, key |-> NaturalKey(log), kind |-> log.kind,
                 tx |-> log.tx, pond |-> log.pond, addr |-> log.addr,
                 amount |-> log.amount, block_number |-> log.block,
                 block_timestamp |-> ts, points_processed |-> 0])

\* one iteration of the `for log in logs` loop of process_logs; `bad` holds the
\* logs whose INSERT raises a non-integrity error, which the inner
\* `except Exception: continue` swallows
ProcessOneLog(tbls, log, block_timestamps, bad) ==
    IF ~Decodable(log) \/ MissingParticipant(log) \/ log \in bad
    THEN tbls
    ELSE [tbls EXCEPT ![log.kind] =
              InsertRow(@, log,
                        IF log.block \in DOMAIN block_timestamps
                        THEN block_timestamps[log.block] ELSE 0)]

RECURSIVE ProcessLogsFrom(_, _, _, _, _)
ProcessLogsFrom(tbls, logs, i, block_timestamps, bad) ==
    IF i > Len(logs)
    THEN tbls
    ELSE ProcessLogsFrom(ProcessOneLog(tbls, logs[i], block_timestamps, bad),
                         logs, i + 1, block_timestamps, bad)

TotalRows(tbls) ==
    Len(tbls["CoinTossed"]) + Len(tbls["LuckyWinnerSelected"]) + Len(tbls["PondAction"])
        + Len(tbls["ConfigChanged"]) + Len(tbls["EmergencyAction"])

\* faulty variant: a duplicate natural key raises out of the loop and the whole batch
\* is rolled back
process_logs_duplicate_aborts(tbls, logs, block_timestamps, bad) ==
    LET out == ProcessLogsFrom(tbls, logs, 1, block_timestamps, bad)
        inserts == {i \in 1..Len(logs) :
                       Decodable(logs[i]) /\ ~MissingParticipant(logs[i]) /\ logs[i] \notin bad}
    IN  IF TotalRows(out) - TotalRows(tbls) < Cardinality(inserts) THEN tbls ELSE out

\* faulty variant: a log no decoder accepts raises out of the loop and the whole
\* batch is rolled back
process_logs_undecodable_aborts(tbls, logs, block_timestamps, bad) ==
    IF \E i \in 1..Len(logs) : ~Decodable(logs[i])
    THEN tbls
    ELSE ProcessLogsFrom(tbls, logs, 1, block_timestamps, bad)

\* process_logs when BEGIN and COMMIT succeed
process_logs(tbls, logs, block_timestamps, bad) ==
    ProcessLogsFrom(tbls, logs, 1, block_timestamps, bad)

EmptyTables == [k \in TrackedKinds |-> <<>>]


(***************************************************************************)
(* State                                                                   *)
(***************************************************************************)
VARIABLES
    chain_head,          \* w3.eth.block_number of the upstream provider
    last_block,          \* indexer_state.last_block (persisted checkpoint)
    tables,              \* the event tables, one sequence of rows per kind
    last_indexed_block,  \* FastBlockchainIndexer.last_indexed_block
    current_batch_size,  \* FastBlockchainIndexer.current_batch_size
    pc,                  \* where the engine is in start_indexing
    safe_block,          \* local of start_indexing
    range,               \* (start_block, end_block) of the running process_block_range
    pending,             \* sub-range the caller frame still has to process
    block_num,           \* loop variable of the one-block-at-a-time fallback
    success,             \* local `success` of process_single_block
    failures,            \* failures injected so far
    crashes,             \* crashes so far
    hist,                \* history of the running poll cycle (not program state)
    lp,                  \* replay of one log list through process_logs: the list,
                         \* the calls made, the tables after the first commit
    user_points,         \* table user_points, one row per address
    user_point_events,   \* table user_point_events, in insertion order
    user_referrals,      \* table user_referrals, one row per address
    calculator_state,    \* the row id = 1 of table calculator_state
    calc,                \* where run_points_calculation is, and its locals
    fed,                 \* batches the indexer has committed to the event tables
    chist,               \* history of the calculator (not program state)
    fetch,               \* one running try_get_logs / try_get_block call
    sessions             \* the ledger calls running side by side, each on its own
                         \* connection: arguments, position, what it has read

idxVars == <<chain_head, last_block, tables, last_indexed_block, current_batch_size,
             pc, safe_block, range, pending, block_num, success, failures, crashes, hist>>

ledgerVars == <<user_points, user_point_events, user_referrals, calculator_state,
                calc, fed, chist, sessions>>

vars == <<idxVars, lp, ledgerVars, fetch>>

Min(a, b) == IF a < b THEN a ELSE b
Max(a, b) == IF a > b THEN a ELSE b

NoRange == [s |-> 0, e |-> 0]

\* fetch: fn - the function called; outcomes - what the upstream answers to the
\* calls, in order; attempt - the loop variable; calls - upstream calls made;
\* sleeps - the delays slept; pc - "attempt", "sleep" or "returned"; result -
\* the success flag returned
NoFetch == [fn |-> "none", outcomes |-> <<>>, attempt |-> 0, calls |-> 0,
            sleeps |-> <<>>, pc |-> "idle", result |-> FALSE]

Addresses == {"a1", "a2"}
Codes == {"K1", "K2", "K3"}
NoCode == "nocode"

\* user_points row of an address without a row
NoPoints == [exists |-> FALSE, total_points |-> 0, toss_points |-> 0,
             winner_points |-> 0, referral_points |-> 0]

\* user_referrals row of an address without a row
NoReferral == [exists |-> FALSE, referral_code |-> NoCode, referrer_address |-> NoAddr,
               is_activated |-> 0, activated_at |-> "NULL", referral_points_earned |-> 0]

\* get_calculator_state: the row it creates, and what it returns when the read fails
ZeroState == [last_processed_toss_id |-> 0, last_processed_winner_id |-> 0]

\* calc: pc - the step of run_points_calculation that comes next; state, max_id -
\* the locals `state` and `max_id` of the running process_*_events between its
\* COMMIT and its update_calculator_state
CalcIdle == [pc |-> "toss", state |-> ZeroState, max_id |-> 0]

\* the last apply_referral_code call and what it returned; flip changes with
\* every call
NoCall == [user_address |-> NoAddr, referral_code |-> NoCode, ok |-> FALSE,
           msg |-> "none", flip |-> FALSE]

\* the last TokenConfig.calculate_points call; result 0: not returned yet
NoPointsCall == [amount |-> 0, min_amount |-> 0, max_amount |-> 0, multiplier |-> 0,
                 result |-> 0]

\* chist: crashed - the calculator died between a commit and its cursor update;
\*        rolled_back - the last batch was rolled back after it had processed a row;
\*        applied - the last recorded apply_referral_code call;
\*        points - the last calculate_points call
NoCalcHistory == [crashed |-> FALSE, rolled_back |-> FALSE, applied |-> NoCall,
                  points |-> NoPointsCall]

\* no ledger call is running
NoSessions == <<>>

\* setup_database: empty ledger tables
InitLedger ==
    /\ user_points = [a \in Addresses |-> NoPoints]
    /\ user_point_events = <<>>
    /\ user_referrals = [a \in Addresses |-> NoReferral]
    /\ calculator_state = ZeroState
    /\ calc = CalcIdle
    /\ fed = 0
    /\ chist = NoCalcHistory
    /\ sessions = NoSessions

\* faulty variant: the shrunk batch size is not floored at min_batch_size
ShrinkBatchNoFloor(size) == size \div 2

(***************************************************************************)
(* Helpers of the Ingestion Engine                                         *)
(***************************************************************************)
\* max(self.min_batch_size, int(self.current_batch_size * self.backoff_factor))
ShrinkBatch(size) == Max(min_batch_size, size \div 2)

\* faulty variant: the grown batch size is not capped at max_batch_size
GrowBatchUncapped(size) == (size * 12) \div 10

\* min(self.max_batch_size, int(self.current_batch_size * self.success_factor)),
\* assigned only when it is larger
GrowBatch(size) ==
    LET new_batch_size == Min(max_batch_size, (size * 12) \div 10)
    IN  IF new_batch_size > size THEN new_batch_size ELSE size

\* faulty variant: the restart ignores the stored checkpoint and begins at START_BLOCK
GetLastIndexedBlockFromStart(db_last_block) == START_BLOCK

\* get_last_indexed_block: SELECT last_block FROM indexer_state WHERE id = 1
GetLastIndexedBlock(db_last_block) == db_last_block

\* faulty variant: the engine indexes up to the chain head
SafeBlockAtHead(current_block) == current_block

\* safe_block = current_block - 5
SafeBlock(current_block) == current_block - REORG_MARGIN

\* faulty variant: the range is one block longer than the batch size
EndBlockOnePast(start_block, size, safe) == Min(start_block + size, safe)

\* faulty variant: the range is not capped at the safe block
EndBlockUncapped(start_block, size, safe) == start_block + size - 1

\* end_block = min(start_block + self.current_batch_size - 1, safe_block)
EndBlock(start_block, size, safe) == Min(start_block + size - 1, safe)

\* mid_block = start_block + self.min_batch_size
MidBlock(start_block) == start_block + min_batch_size

\* next_end = min(mid_block + self.min_batch_size, end_block)
NextEnd(mid_block, end_block) == Min(mid_block + min_batch_size, end_block)

BlocksOf(logs) == {logs[i].block : i \in 1..Len(logs)}

\* hist: rolled_back - a batch transaction of the running poll cycle was rolled back;
\*       bisected    - the running poll cycle split its range;
\*       pass_ok     - the running process_block_range fetched and stored its range
\*                     without any failure;
\*       clean       - the range whose failure-free pass was just checkpointed;
\*       crashed_at  - where the last crash hit the engine;
\*       asked       - the range start_indexing passed to process_block_range
NoReplay == [logs |-> <<>>, runs |-> 0, committed |-> FALSE, once |-> EmptyTables]

NewCycle == [rolled_back |-> FALSE, bisected |-> FALSE, pass_ok |-> FALSE,
             crashed_at |-> "none", clean |-> NoRange, asked |-> NoRange]

Init ==
    /\ chain_head = Head0
    /\ last_block = START_BLOCK
    /\ tables = EmptyTables
    /\ last_indexed_block = GetLastIndexedBlock(START_BLOCK)
    /\ current_batch_size = INITIAL_BATCH_SIZE
    /\ pc = "poll"
    /\ safe_block = 0
    /\ range = NoRange
    /\ pending = <<>>
    /\ block_num = 0
    /\ success = TRUE
    /\ failures = 0
    /\ crashes = 0
    /\ fetch = NoFetch
    /\ hist = NewCycle
    /\ lp = NoReplay
    /\ InitLedger

(***************************************************************************)
(* Ingestion Engine: start_indexing, process_block_range,                  *)
(* process_single_block                                                    *)
(***************************************************************************)
\* the upstream chain grows; the engine reads the head only when it polls
ChainAdvance ==
    /\ pc = "poll"
    /\ chain_head + HeadStep <= MaxHead
    /\ chain_head' = chain_head + HeadStep
    /\ UNCHANGED <<last_block, tables, last_indexed_block, current_batch_size, pc,
                   safe_block, range, pending, block_num, success, failures, crashes, hist>>
    /\ UNCHANGED <<lp, ledgerVars, fetch>>

\* start_indexing: safe_block <= self.last_indexed_block, sleep and poll again
PollIdle ==
    /\ pc = "poll"
    /\ SafeBlock(chain_head) <= last_indexed_block
    /\ UNCHANGED vars

\* start_indexing: compute the next range and call process_block_range
PollStart ==
    /\ pc = "poll"
    /\ SafeBlock(chain_head) > last_indexed_block
    /\ safe_block' = SafeBlock(chain_head)
    /\ range' = [s |-> last_indexed_block + 1,
                 e |-> EndBlock(last_indexed_block + 1, current_batch_size,
                                SafeBlock(chain_head))]
    /\ pending' = <<>>
    /\ pc' = "range"
    /\ hist' = [hist EXCEPT !.rolled_back = FALSE, !.bisected = FALSE, !.pass_ok = FALSE,
                            !.clean = NoRange, !.asked = range']
    /\ UNCHANGED <<chain_head, last_block, tables, last_indexed_block, current_batch_size,
                   block_num, success, failures, crashes>>
    /\ UNCHANGED <<lp, ledgerVars, fetch>>

\* process_block_range returns `ok` to its caller: the bisecting frame goes on
\* with the remainder when the first sub-range succeeded, start_indexing polls
Return(ok) ==
    IF ok /\ pending # <<>>
    THEN /\ range' = pending[1]
         /\ pending' = <<>>
         /\ pc' = "range"
    ELSE /\ range' = NoRange
         /\ pending' = <<>>
         /\ pc' = "poll"

\* an exception leaves process_block_range and is caught by start_indexing
Propagate ==
    /\ range' = NoRange
    /\ pending' = <<>>
    /\ pc' = "poll"

\* process_block_range: try_get_logs failed
RangeFetchFail ==
    /\ pc = "range"
    /\ failures < MaxFailures
    /\ failures' = failures + 1
    /\ current_batch_size' = ShrinkBatch(current_batch_size)
    /\ IF range.e - range.s > min_batch_size
       THEN /\ range' = [s |-> range.s, e |-> MidBlock(range.s)]
            /\ pending' = IF MidBlock(range.s) < range.e
                          THEN << [s |-> MidBlock(range.s) + 1,
                                   e |-> NextEnd(MidBlock(range.s), range.e)] >>
                          ELSE <<>>
            /\ pc' = "range"
            /\ hist' = [hist EXCEPT !.bisected = TRUE]
            /\ UNCHANGED block_num
       ELSE /\ block_num' = range.s
            /\ pc' = "single"
            /\ UNCHANGED <<range, pending, hist>>
    /\ UNCHANGED <<chain_head, last_block, tables, last_indexed_block, safe_block,
                   success, crashes>>
    /\ UNCHANGED <<lp, ledgerVars, fetch>>

\* block_timestamps after the try_get_block loop: the blocks in ts_fail have no entry
Timestamps(blocks, ts_fail) == [b \in blocks \ ts_fail |-> BlockTimestamp(b)]

DecodableIn(logs) == {l \in Range(logs) : Decodable(l)}

\* process_block_range: logs fetched, timestamps looked up, process_logs commits
RangeStore ==
    /\ pc = "range"
    /\ LET logs == LogsInRange(range.s, range.e)
       IN  \E ts_fail \in SUBSET BlocksOf(logs), bad \in SUBSET DecodableIn(logs) :
             /\ failures + Cardinality(ts_fail) + Cardinality(bad) <= MaxFailures
             /\ failures' = failures + Cardinality(ts_fail) + Cardinality(bad)
             /\ tables' = process_logs(tables, logs, Timestamps(BlocksOf(logs), ts_fail), bad)
             /\ hist' = [hist EXCEPT !.pass_ok = (ts_fail = {} /\ bad = {})]
    /\ pc' = "advance"
    /\ UNCHANGED <<chain_head, last_block, last_indexed_block, current_batch_size,
                   safe_block, range, pending, block_num, success, crashes>>
    /\ UNCHANGED <<lp, ledgerVars, fetch>>

\* process_block_range: COMMIT raises, process_logs rolls back and returns
RangeRollback ==
    /\ pc = "range"
    /\ LogsInRange(range.s, range.e) # <<>>
    /\ failures < MaxFailures
    /\ failures' = failures + 1
    /\ hist' = [hist EXCEPT !.rolled_back = TRUE, !.pass_ok = FALSE]
    /\ pc' = "advance"
    /\ UNCHANGED <<chain_head, last_block, tables, last_indexed_block, current_batch_size,
                   safe_block, range, pending, block_num, success, crashes>>
    /\ UNCHANGED <<lp, ledgerVars, fetch>>

\* process_block_range: BEGIN raises, the ROLLBACK of the handler raises too
RangeAbort ==
    /\ pc = "range"
    /\ LogsInRange(range.s, range.e) # <<>>
    /\ failures < MaxFailures
    /\ failures' = failures + 1
    /\ Propagate
    /\ UNCHANGED <<chain_head, last_block, tables, last_indexed_block, current_batch_size,
                   safe_block, block_num, success, crashes, hist>>
    /\ UNCHANGED <<lp, ledgerVars, fetch>>

\* process_block_range: update_last_indexed_block(end_block), grow the batch size
Advance ==
    /\ pc = "advance"
    /\ last_block' = range.e
    /\ last_indexed_block' = range.e
    /\ current_batch_size' = GrowBatch(current_batch_size)
    /\ hist' = [hist EXCEPT !.clean = IF hist.pass_ok THEN range ELSE NoRange]
    /\ Return(TRUE)
    /\ UNCHANGED <<chain_head, tables, safe_block, block_num, success, failures, crashes>>
    /\ UNCHANGED <<lp, ledgerVars, fetch>>

\* update_last_indexed_block raises: nothing is written
AdvanceFails ==
    /\ pc \in {"advance", "single_update"}
    /\ failures < MaxFailures
    /\ failures' = failures + 1
    /\ Propagate
    /\ UNCHANGED <<chain_head, last_block, tables, last_indexed_block, current_batch_size,
                   safe_block, block_num, success, crashes, hist>>
    /\ UNCHANGED <<lp, ledgerVars, fetch>>

\* process_single_block: try_get_logs(block_num, block_num) failed
SingleFetchFail ==
    /\ pc = "single"
    /\ failures < MaxFailures
    /\ failures' = failures + 1
    /\ success' = FALSE
    /\ pc' = "single_update"
    /\ UNCHANGED <<chain_head, last_block, tables, last_indexed_block, current_batch_size,
                   safe_block, range, pending, block_num, crashes, hist>>
    /\ UNCHANGED <<lp, ledgerVars, fetch>>

\* process_single_block: logs fetched, but try_get_block failed: the logs are
\* not processed and `success` is now False
SingleBlockFail ==
    /\ pc = "single"
    /\ LogsInRange(block_num, block_num) # <<>>
    /\ failures < MaxFailures
    /\ failures' = failures + 1
    /\ success' = FALSE
    /\ pc' = "single_update"
    /\ UNCHANGED <<chain_head, last_block, tables, last_indexed_block, current_batch_size,
                   safe_block, range, pending, block_num, crashes, hist>>
    /\ UNCHANGED <<lp, ledgerVars, fetch>>

\* process_single_block: logs (possibly none) fetched and stored
SingleStore ==
    /\ pc = "single"
    /\ LET logs == LogsInRange(block_num, block_num)
       IN  \E bad \in SUBSET DecodableIn(logs) :
             /\ failures + Cardinality(bad) <= MaxFailures
             /\ failures' = failures + Cardinality(bad)
             /\ tables' = process_logs(tables, logs,
                                       Timestamps({block_num}, {}), bad)
    /\ success' = TRUE
    /\ pc' = "single_update"
    /\ UNCHANGED <<chain_head, last_block, last_indexed_block, current_batch_size,
                   safe_block, range, pending, block_num, crashes, hist>>
    /\ UNCHANGED <<lp, ledgerVars, fetch>>

\* process_single_block: COMMIT raises, process_logs rolls back and returns
SingleRollback ==
    /\ pc = "single"
    /\ LogsInRange(block_num, block_num) # <<>>
    /\ failures < MaxFailures
    /\ failures' = failures + 1
    /\ success' = TRUE
    /\ hist' = [hist EXCEPT !.rolled_back = TRUE]
    /\ pc' = "single_update"
    /\ UNCHANGED <<chain_head, last_block, tables, last_indexed_block, current_batch_size,
                   safe_block, range, pending, block_num, crashes>>
    /\ UNCHANGED <<lp, ledgerVars, fetch>>

\* process_single_block: BEGIN raises, the exception reaches start_indexing
SingleAbort ==
    /\ pc = "single"
    /\ LogsInRange(block_num, block_num) # <<>>
    /\ failures < MaxFailures
    /\ failures' = failures + 1
    /\ Propagate
    /\ UNCHANGED <<chain_head, last_block, tables, last_indexed_block, current_batch_size,
                   safe_block, block_num, success, crashes, hist>>
    /\ UNCHANGED <<lp, ledgerVars, fetch>>

\* faulty variant: the checkpoint moves only past a block that was processed
UpdateOnlyOnSuccess(checkpoint, block, ok) == IF ok THEN block ELSE checkpoint

\* process_single_block: self.update_last_indexed_block(block_num), whatever
\* `success` is
UpdateAfterSingleBlock(checkpoint, block, ok) == block

\* process_single_block: "Always update the last indexed block to avoid getting
\* stuck", then the fallback loop of process_block_range goes on or returns
SingleUpdate ==
    /\ pc = "single_update"
    /\ last_block' = UpdateAfterSingleBlock(last_block, block_num, success)
    /\ last_indexed_block' = UpdateAfterSingleBlock(last_indexed_block, block_num, success)
    /\ hist' = [hist EXCEPT !.clean = NoRange]
    /\ IF ~success
       THEN Return(FALSE) /\ UNCHANGED block_num
       ELSE IF block_num < range.e
            THEN /\ block_num' = block_num + 1
                 /\ pc' = "single"
                 /\ UNCHANGED <<range, pending>>
            ELSE Return(TRUE) /\ UNCHANGED block_num
    /\ UNCHANGED <<chain_head, tables, current_batch_size, safe_block, success,
                   failures, crashes>>
    /\ UNCHANGED <<lp, ledgerVars, fetch>>

\* the process dies and is started again: __init__ reads the checkpoint back
CrashRestart ==
    /\ crashes < MaxCrashes
    /\ crashes' = crashes + 1
    /\ last_indexed_block' = GetLastIndexedBlock(last_block)
    /\ current_batch_size' = INITIAL_BATCH_SIZE
    /\ Propagate
    /\ hist' = [hist EXCEPT !.crashed_at = pc, !.rolled_back = FALSE, !.bisected = FALSE,
                            !.pass_ok = FALSE, !.clean = NoRange]
    /\ UNCHANGED <<chain_head, last_block, tables, safe_block, block_num, success, failures>>
    /\ UNCHANGED <<lp, ledgerVars, fetch>>

Next ==
    \/ ChainAdvance
    \/ PollIdle
    \/ PollStart
    \/ RangeFetchFail
    \/ RangeStore
    \/ RangeRollback
    \/ RangeAbort
    \/ Advance
    \/ AdvanceFails
    \/ SingleFetchFail
    \/ SingleBlockFail
    \/ SingleStore
    \/ SingleRollback
    \/ SingleAbort
    \/ SingleUpdate
    \/ CrashRestart

Spec == Init /\ [][Next]_vars

(***************************************************************************)
(* The engine far behind the head: the first range is wider than two       *)
(* minimum batches                                                         *)
(***************************************************************************)
InitWide ==
    /\ chain_head = MaxHead + HeadStep
    /\ last_block = START_BLOCK
    /\ tables = EmptyTables
    /\ last_indexed_block = GetLastIndexedBlock(START_BLOCK)
    /\ current_batch_size = 2 * min_batch_size + INITIAL_BATCH_SIZE
    /\ pc = "poll"
    /\ safe_block = 0
    /\ range = NoRange
    /\ pending = <<>>
    /\ block_num = 0
    /\ success = TRUE
    /\ failures = 0
    /\ crashes = 0
    /\ fetch = NoFetch
    /\ hist = NewCycle
    /\ lp = NoReplay
    /\ InitLedger

\* the head stands still; the storage failures of the one-block fallback are
\* left to Spec, where the fallback is reached with failures to spare
NextWide ==
    \/ PollIdle
    \/ PollStart
    \/ RangeFetchFail
    \/ RangeStore
    \/ RangeRollback
    \/ RangeAbort
    \/ Advance
    \/ AdvanceFails
    \/ SingleFetchFail
    \/ SingleStore
    \/ SingleUpdate
    \/ CrashRestart

SpecWide == InitWide /\ [][NextWide]_vars

(***************************************************************************)
(* try_get_logs and try_get_block: one call and its retries                *)
(***************************************************************************)
max_retries == 3

\* what one upstream call can answer: a result, an exception, an exception
\* whose text has "rate limited" / "429", one whose text has "invalid block range"
Outcomes == {"ok", "error", "rate_limited", "invalid_range"}

InitRetry ==
    /\ chain_head = Head0
    /\ last_block = START_BLOCK
    /\ tables = EmptyTables
    /\ last_indexed_block = GetLastIndexedBlock(START_BLOCK)
    /\ current_batch_size = INITIAL_BATCH_SIZE
    /\ pc = "poll"
    /\ safe_block = 0
    /\ range = NoRange
    /\ pending = <<>>
    /\ block_num = 0
    /\ success = TRUE
    /\ failures = 0
    /\ crashes = 0
    /\ hist = NewCycle
    /\ lp = NoReplay
    /\ InitLedger
    /\ \E fn \in {"try_get_logs", "try_get_block"}, outcomes \in [1..max_retries -> Outcomes] :
          fetch = [NoFetch EXCEPT !.fn = fn, !.outcomes = outcomes, !.pc = "attempt"]

\* delay = 2 ** attempt, doubled when the upstream reports a rate limit
Delay(attempt, outcome) == 2^attempt * (IF outcome = "rate_limited" THEN 2 ELSE 1)

\* faulty variant: the function sleeps after its last attempt too
RetriesAfterLast(attempt) == attempt < max_retries

\* if attempt < max_retries - 1: sleep and try again
Retries(attempt) == attempt < max_retries - 1

\* one pass of the loop body up to its return or its sleep; only try_get_logs
\* looks for "invalid block range"
TryAttempt ==
    /\ fetch.pc = "attempt"
    /\ LET outcome == fetch.outcomes[fetch.attempt + 1]
           called == [fetch EXCEPT !.calls = @ + 1]
       IN  fetch' =
              IF outcome = "ok"
              THEN [called EXCEPT !.pc = "returned", !.result = TRUE]
              ELSE IF fetch.fn = "try_get_logs" /\ outcome = "invalid_range"
              THEN [called EXCEPT !.pc = "returned", !.result = FALSE]
              ELSE IF Retries(fetch.attempt)
              THEN [called EXCEPT !.pc = "sleep"]
              ELSE [called EXCEPT !.pc = "returned", !.result = FALSE]
    /\ UNCHANGED <<idxVars, lp, ledgerVars>>

\* time.sleep(delay), then the next pass; the loop that runs out returns failure
TrySleep ==
    /\ fetch.pc = "sleep"
    /\ LET slept == [fetch EXCEPT !.sleeps = Append(@, Delay(fetch.attempt,
                                                            fetch.outcomes[fetch.attempt + 1])),
                                  !.attempt = @ + 1]
       IN  fetch' = IF slept.attempt < max_retries
                    THEN [slept EXCEPT !.pc = "attempt"]
                    ELSE [slept EXCEPT !.pc = "returned", !.result = FALSE]
    /\ UNCHANGED <<idxVars, lp, ledgerVars>>

NextRetry == TryAttempt \/ TrySleep

SpecRetry == InitRetry /\ [][NextRetry]_vars

(***************************************************************************)
(* The engine with a poll loop that keeps running: `while True` takes the  *)
(* next step of the cycle whenever the upstream and the storage let it.    *)
(* Failures and crashes are finite (MaxFailures, MaxCrashes) and the chain *)
(* head stops at MaxHead at the latest.                                    *)
(***************************************************************************)
PollLoopStep == PollStart \/ RangeStore \/ Advance \/ SingleStore \/ SingleUpdate

SpecLive == Init /\ [][Next]_vars /\ WF_vars(PollLoopStep)

(***************************************************************************)
(* One call of process_block_range with its frames kept on a stack, under  *)
(* any pattern of upstream failures.  `pending` is the call stack (the     *)
(* innermost frame last), `range` the arguments of the outermost call,     *)
(* fetch.calls the upstream calls made so far.                             *)
(***************************************************************************)
MaxWidth == 23      \* widest range handed to process_block_range
StartBlocks == {START_BLOCK + 1, START_BLOCK + REORG_MARGIN}

Frame(s, e, at) == [s |-> s, e |-> e, at |-> at]

InitTerm ==
    /\ chain_head = Head0
    /\ last_block = START_BLOCK
    /\ tables = EmptyTables
    /\ last_indexed_block = GetLastIndexedBlock(START_BLOCK)
    /\ current_batch_size = INITIAL_BATCH_SIZE
    /\ pc = "poll"
    /\ safe_block = 0
    /\ block_num = 0
    /\ success = TRUE
    /\ failures = 0
    /\ crashes = 0
    /\ hist = NewCycle
    /\ lp = NoReplay
    /\ InitLedger
    /\ \E s \in StartBlocks, w \in 1..MaxWidth :
          /\ range = [s |-> s, e |-> s + w - 1]
          /\ pending = << Frame(s, s + w - 1, "fetch") >>
    /\ fetch = [NoFetch EXCEPT !.fn = "process_block_range", !.pc = "running"]

Top == pending[Len(pending)]

SetTop(at) == [pending EXCEPT ![Len(pending)].at = at]

\* faulty variant: a range of exactly the minimum width is bisected as well
TooWideInclusive(start_block, end_block) == end_block - start_block >= min_batch_size

\* if end_block - start_block > self.min_batch_size
TooWide(start_block, end_block) == end_block - start_block > min_batch_size

\* upstream calls of the try_get_block loop: a lookup that fails takes
\* max_retries calls, the ones that succeed take n calls each
BlockCalls(blocks, ts_fail, n) ==
    Cardinality(ts_fail) * max_retries + Cardinality(blocks \ ts_fail) * n

\* process_block_range: try_get_logs succeeds after n calls; timestamps,
\* process_logs, update_last_indexed_block, the batch grows, return True
FrameFetchOk ==
    /\ fetch.pc = "running"
    /\ Top.at = "fetch"
    /\ LET logs == LogsInRange(Top.s, Top.e)
       IN  \E n \in 1..max_retries, ts_fail \in SUBSET BlocksOf(logs) :
             /\ fetch' = [fetch EXCEPT !.calls = @ + n + BlockCalls(BlocksOf(logs), ts_fail, n)]
             /\ tables' = process_logs(tables, logs, Timestamps(BlocksOf(logs), ts_fail), {})
    /\ last_block' = Top.e
    /\ last_indexed_block' = Top.e
    /\ current_batch_size' = GrowBatch(current_batch_size)
    /\ pending' = SetTop("return_true")
    /\ UNCHANGED <<chain_head, pc, safe_block, range, block_num, success, failures,
                   crashes, hist, lp, ledgerVars>>

\* process_block_range: try_get_logs fails (one call on an invalid range,
\* max_retries calls otherwise); the batch shrinks; bisect or go block by block
FrameFetchFail ==
    /\ fetch.pc = "running"
    /\ Top.at = "fetch"
    /\ \E n \in {1, max_retries} : fetch' = [fetch EXCEPT !.calls = @ + n]
    /\ current_batch_size' = ShrinkBatch(current_batch_size)
    /\ IF TooWide(Top.s, Top.e)
       THEN /\ pending' = Append(SetTop("first"), Frame(Top.s, MidBlock(Top.s), "fetch"))
            /\ UNCHANGED block_num
       ELSE /\ pending' = SetTop("single")
            /\ block_num' = Top.s
    /\ UNCHANGED <<chain_head, last_block, tables, last_indexed_block, pc, safe_block,
                   range, success, failures, crashes, hist, lp, ledgerVars>>

\* one pass of `for block_num in range(start_block, end_block + 1)`:
\* process_single_block(block_num)
FrameSingle ==
    /\ fetch.pc = "running"
    /\ Top.at = "single"
    /\ LET logs == LogsInRange(block_num, block_num)
       IN  \E n \in 1..max_retries, logs_ok \in BOOLEAN, block_ok \in BOOLEAN :
             LET looked_up == logs_ok /\ logs # <<>>
                 ok == IF looked_up THEN block_ok ELSE logs_ok
             IN  /\ fetch' = [fetch EXCEPT !.calls =
                                 @ + (IF logs_ok THEN n ELSE max_retries)
                                   + (IF ~looked_up THEN 0
                                      ELSE IF block_ok THEN n ELSE max_retries)]
                 /\ tables' = IF looked_up /\ block_ok
                              THEN process_logs(tables, logs,
                                                Timestamps(BlocksOf(logs), {}), {})
                              ELSE tables
                 /\ success' = ok
                 /\ IF ~ok
                    THEN pending' = SetTop("return_false") /\ UNCHANGED block_num
                    ELSE IF block_num = Top.e
                    THEN pending' = SetTop("return_true") /\ UNCHANGED block_num
                    ELSE pending' = pending /\ block_num' = block_num + 1
    /\ last_block' = UpdateAfterSingleBlock(last_block, block_num, TRUE)
    /\ last_indexed_block' = UpdateAfterSingleBlock(last_indexed_block, block_num, TRUE)
    /\ UNCHANGED <<chain_head, current_batch_size, pc, safe_block, range, failures,
                   crashes, hist, lp, ledgerVars>>

\* a frame returns: the outermost one ends the call; the caller that waited
\* for its first sub-range calls process_block_range on the next one or
\* returns the result; the caller of the second sub-range returns its result
FrameReturn ==
    /\ fetch.pc = "running"
    /\ Top.at \in {"return_true", "return_false"}
    /\ LET result == Top.at = "return_true"
           rest == SubSeq(pending, 1, Len(pending) - 1)
           returned == IF result THEN "return_true" ELSE "return_false"
       IN  IF rest = <<>>
           THEN /\ pending' = <<>>
                /\ fetch' = [fetch EXCEPT !.pc = "returned", !.result = result]
           ELSE LET caller == rest[Len(rest)]
                    mid_block == MidBlock(caller.s)
                IN  /\ UNCHANGED fetch
                    /\ pending' =
                          IF caller.at = "first" /\ result /\ mid_block < caller.e
                          THEN Append([rest EXCEPT ![Len(rest)].at = "second"],
                                      Frame(mid_block + 1, NextEnd(mid_block, caller.e),
                                            "fetch"))
                          ELSE [rest EXCEPT ![Len(rest)].at = returned]
    /\ UNCHANGED <<chain_head, last_block, tables, last_indexed_block, current_batch_size,
                   pc, safe_block, range, block_num, success, failures, crashes, hist, lp,
                   ledgerVars>>

NextTerm == FrameFetchOk \/ FrameFetchFail \/ FrameSingle \/ FrameReturn

\* the interpreter runs the call: a step that can be taken is taken
SpecTerm == InitTerm /\ [][NextTerm]_vars /\ WF_vars(NextTerm)

(***************************************************************************)
(* Replaying one list of logs through process_logs                         *)
(***************************************************************************)
MaxLogs == 2        \* length of the replayed log list
MaxRuns == 2        \* calls of process_logs on the list

LogUniverse ==
    { MkLog("CoinTossed", "t1", "p1", "a1", "", 3, 5),
      MkLog("CoinTossed", "t1", "p1", "a1", "", 3, 9),
      MkLog("CoinTossed", "t8", "p1", NoAddr, "", 4, 5),
      MkLog("LuckyWinnerSelected", "t1", "p1", "a1", "", 3, 0),
      MkLog("PondAction", "t1", "p1", "", "", 4, 0),
      MkLog("ConfigChanged", "t6", "p2", "", "fee", 4, 0),
      MkLog("EmergencyAction", "t7", "p2", "a1", "", 4, 7),
      MkLog("RoleGranted", "t3", "", "a2", "", 3, 0) }

LogLists == UNION {[1..n -> LogUniverse] : n \in 0..MaxLogs}

InitLogs ==
    /\ chain_head = Head0
    /\ last_block = START_BLOCK
    /\ tables = EmptyTables
    /\ last_indexed_block = GetLastIndexedBlock(START_BLOCK)
    /\ current_batch_size = INITIAL_BATCH_SIZE
    /\ pc = "poll"
    /\ safe_block = 0
    /\ range = NoRange
    /\ pending = <<>>
    /\ block_num = 0
    /\ success = TRUE
    /\ failures = 0
    /\ crashes = 0
    /\ fetch = NoFetch
    /\ hist = NewCycle
    /\ \E logs \in LogLists : lp = [NoReplay EXCEPT !.logs = logs]
    /\ InitLedger

\* process_logs(logs, block_timestamps) commits
LogsCommit ==
    /\ lp.runs < MaxRuns
    /\ \E ts_fail \in SUBSET BlocksOf(lp.logs) :
          tables' = process_logs(tables, lp.logs, Timestamps(BlocksOf(lp.logs), ts_fail), {})
    /\ lp' = [lp EXCEPT !.runs = @ + 1,
                        !.committed = TRUE,
                        !.once = IF lp.committed THEN @ ELSE tables']
    /\ UNCHANGED <<chain_head, last_block, last_indexed_block, current_batch_size, pc,
                   safe_block, range, pending, block_num, success, failures, crashes, hist>>
    /\ UNCHANGED <<ledgerVars, fetch>>

\* process_logs(logs, block_timestamps): COMMIT raises and the batch is rolled back
LogsRollback ==
    /\ lp.runs < MaxRuns
    /\ lp.logs # <<>>
    /\ lp' = [lp EXCEPT !.runs = @ + 1]
    /\ UNCHANGED <<idxVars, ledgerVars, fetch>>

NextLogs == LogsCommit \/ LogsRollback

SpecLogs == InitLogs /\ [][NextLogs]_vars

(***************************************************************************)
(* Ledger Store and Ledger Calculator                                      *)
(***************************************************************************)
BatchLimit == 2     \* rows one calculator batch selects (LIMIT 1000 in the source)

\* int(float(amount) / 10**18 * TOSS_POINTS_MULTIPLIER); amounts are in units of
\* 10^16 wei, so that one ETH is 100
TossPoints(amount) == (amount * TOSS_POINTS_MULTIPLIER) \div 100

\* INSERT OR IGNORE INTO user_points (address, total_points, ..., referral_points)
EnsureUser(up, address, total, referral) ==
    IF up[address].exists
    THEN up
    ELSE [up EXCEPT ![address] = [exists |-> TRUE, total_points |-> total, toss_points |-> 0,
                                  winner_points |-> 0, referral_points |-> referral]]

PointEvent(address, event_type, points, tx_hash, pond_type) ==
    [address |-> address, event_type |-> event_type, points |-> points,
     tx_hash |-> tx_hash, pond_type |-> pond_type]

\* PointsCalculator._add_user_points_transaction
AddUserPointsTransaction(db, address, event_type, points, tx_hash, pond_type) ==
    LET up1 == EnsureUser(db.up, address, 0, 0)
        up2 == [up1 EXCEPT ![address] =
                   CASE event_type = "toss" ->
                            [@ EXCEPT !.toss_points = @ + points, !.total_points = @ + points]
                     [] event_type = "winner" ->
                            [@ EXCEPT !.winner_points = @ + points, !.total_points = @ + points]
                     [] OTHER ->
                            [@ EXCEPT !.total_points = @ + points]]
    IN  [db EXCEPT !.up = up2,
                   !.upe = Append(@, PointEvent(address, event_type, points, tx_hash, pond_type))]

\* f"referral_{user_address}_{timestamp}"
ReferralTx(user_address) == "referral_" \o user_address

\* faulty variant: the bonus and its point event go to the activating user
CheckAndActivateReferralCreditsUser(db, user_address) ==
    LET rec == db.ur[user_address]
    IN  IF ~rec.exists \/ rec.referrer_address = NoAddr \/ rec.is_activated = 1
        THEN db
        ELSE LET up1 == EnsureUser(db.up, user_address, REFERRAL_BONUS_POINTS, 0)
             IN  [db EXCEPT !.ur = [@ EXCEPT ![user_address].is_activated = 1,
                                             ![user_address].activated_at = "set"],
                            !.up = [up1 EXCEPT ![user_address].total_points =
                                                   @ + REFERRAL_BONUS_POINTS],
                            !.upe = Append(@, PointEvent(user_address, "referral",
                                                         REFERRAL_BONUS_POINTS,
                                                         ReferralTx(user_address),
                                                         "referral"))]

\* PointsCalculator._check_and_activate_referral_transaction
CheckAndActivateReferralTransaction(db, user_address) ==
    LET rec == db.ur[user_address]
        referrer_address == rec.referrer_address
    IN  IF ~rec.exists \/ referrer_address = NoAddr \/ rec.is_activated = 1
        THEN db
        ELSE LET ur1 == [db.ur EXCEPT ![user_address].is_activated = 1,
                                      ![user_address].activated_at = "set"]
                 ur2 == IF ur1[referrer_address].exists
                        THEN [ur1 EXCEPT ![referrer_address].referral_points_earned =
                                             @ + REFERRAL_BONUS_POINTS]
                        ELSE ur1
                 up1 == EnsureUser(db.up, referrer_address, REFERRAL_BONUS_POINTS, 0)
                 up2 == [up1 EXCEPT ![referrer_address].total_points =
                                        @ + REFERRAL_BONUS_POINTS]
             IN  [db EXCEPT !.ur = ur2, !.up = up2,
                            !.upe = Append(@, PointEvent(referrer_address, "referral",
                                                         REFERRAL_BONUS_POINTS,
                                                         ReferralTx(user_address),
                                                         "referral"))]

\* faulty variant: the UPDATE matches no row and the flag stays 0
MarkProcessedNoRow(table, id) == table

\* UPDATE <events table> SET points_processed = 1 WHERE id = ?
MarkProcessed(table, id) ==
    [i \in 1..Len(table) |->
        IF table[i].id = id THEN [table[i] EXCEPT !.points_processed = 1] ELSE table[i]]

FirstN(seq, n) == SubSeq(seq, 1, Min(n, Len(seq)))

\* faulty variant: the scan trusts the cursor alone (no points_processed filter)
SelectUnprocessedByCursor(table, last_id) ==
    FirstN(SelectSeq(table, LAMBDA r : r.id > last_id), BatchLimit)

\* faulty variant: the scan starts one row after the row that follows the cursor
SelectUnprocessedOffByOne(table, last_id) ==
    FirstN(SelectSeq(table, LAMBDA r : r.id > last_id + 1 /\ r.points_processed = 0),
           BatchLimit)

\* SELECT ... WHERE id > ? AND points_processed = 0 ORDER BY id ASC LIMIT 1000
SelectUnprocessed(table, last_id) ==
    FirstN(SelectSeq(table, LAMBDA r : r.id > last_id /\ r.points_processed = 0), BatchLimit)

\* the `for event in events` loop of process_coin_toss_events
RECURSIVE AwardTosses(_, _, _)
AwardTosses(db, events, i) ==
    IF i > Len(events)
    THEN db
    ELSE LET ev == events[i]
             d1 == AddUserPointsTransaction(db, ev.addr, "toss", TossPoints(ev.amount),
                                            ev.tx, ev.pond)
             d2 == [d1 EXCEPT !.toss = MarkProcessed(@, ev.id)]
             d3 == CheckAndActivateReferralTransaction(d2, ev.addr)
         IN  AwardTosses(d3, events, i + 1)

\* the `for event in events` loop of process_winner_events
RECURSIVE AwardWinners(_, _, _)
AwardWinners(db, events, i) ==
    IF i > Len(events)
    THEN db
    ELSE LET ev == events[i]
             d1 == AddUserPointsTransaction(db, ev.addr, "winner", WIN_POINTS, ev.tx, ev.pond)
             d2 == [d1 EXCEPT !.win = MarkProcessed(@, ev.id)]
         IN  AwardWinners(d2, events, i + 1)

\* max(max_id, event_id) over the batch
MaxId(last_id, events) ==
    IF events = <<>> THEN last_id ELSE Max(last_id, events[Len(events)].id)


\* the tables one calculator transaction reads and writes
LedgerDb ==
    [up |-> user_points, upe |-> user_point_events, ur |-> user_referrals,
     toss |-> tables["CoinTossed"], win |-> tables["LuckyWinnerSelected"]]

\* the log batches the indexer commits while the calculator runs, in order; the
\* second batch replays a log of the first
IngestBatches ==
    << << MkLog("CoinTossed", "t1", "p1", "a1", "", 3, 5),
          MkLog("LuckyWinnerSelected", "t2", "p1", "a1", "", 3, 0) >>,
       << MkLog("CoinTossed", "t1", "p1", "a1", "", 3, 5),
          MkLog("CoinTossed", "t4", "p1", "a2", "", 9, 130),
          MkLog("CoinTossed", "t9", "p2", "a1", "", 12, 250) >> >>

engineRest == <<chain_head, last_block, last_indexed_block, current_batch_size, pc,
                safe_block, range, pending, block_num, success, hist, lp, fetch, sessions>>

\* the indexer commits one more batch of logs (process_logs)
IndexerCommit ==
    /\ fed < Len(IngestBatches)
    /\ LET logs == IngestBatches[fed + 1]
       IN  tables' = process_logs(tables, logs, Timestamps(BlocksOf(logs), {}), {})
    /\ fed' = fed + 1
    /\ UNCHANGED <<engineRest, failures, crashes, user_points, user_point_events,
                   user_referrals, calculator_state, calc, chist>>

\* faulty variant: the handler does not undo the rows written before the error
RollbackKeepsPartial(before, partial) == partial

\* except Exception: cursor.execute('ROLLBACK') (and conn.close()): the rows the
\* transaction wrote before the error are undone
Rollback(before, partial) == before

\* process_coin_toss_events up to its COMMIT (or its rollback); fail_at = 0: no
\* error, fail_at = k: the k-th row raises (Len(events) + 1: COMMIT raises)
TossBatch ==
    /\ calc.pc = "toss"
    /\ \E read_ok \in BOOLEAN :
          LET state == IF read_ok THEN calculator_state ELSE ZeroState
              last_id == state.last_processed_toss_id
              events == SelectUnprocessed(tables["CoinTossed"], last_id)
          IN  \E fail_at \in 0..(IF events = <<>> THEN 0 ELSE Len(events) + 1) :
              LET db == IF fail_at = 0
                        THEN AwardTosses(LedgerDb, events, 1)
                        ELSE Rollback(LedgerDb,
                                      AwardTosses(LedgerDb, FirstN(events, fail_at - 1), 1))
                  cost == (IF read_ok THEN 0 ELSE 1) + (IF fail_at = 0 THEN 0 ELSE 1)
              IN  /\ failures + cost <= MaxFailures
                  /\ failures' = failures + cost
                  /\ user_points' = db.up
                  /\ user_point_events' = db.upe
                  /\ user_referrals' = db.ur
                  /\ tables' = [tables EXCEPT !["CoinTossed"] = db.toss]
                  /\ calc' = IF events # <<>> /\ fail_at = 0
                             THEN [pc |-> "toss_state", state |-> state,
                                   max_id |-> MaxId(last_id, events)]
                             ELSE [CalcIdle EXCEPT !.pc = "winner"]
                  /\ chist' = [chist EXCEPT !.rolled_back = fail_at >= 2]
    /\ UNCHANGED <<engineRest, crashes, calculator_state, fed>>

\* process_coin_toss_events after its COMMIT: update_calculator_state, which
\* logs and swallows its own failure
TossCursor ==
    /\ calc.pc = "toss_state"
    /\ \E update_ok \in BOOLEAN :
          /\ failures + (IF update_ok THEN 0 ELSE 1) <= MaxFailures
          /\ failures' = failures + (IF update_ok THEN 0 ELSE 1)
          /\ calculator_state' =
                IF update_ok /\ calc.max_id > calc.state.last_processed_toss_id
                THEN [last_processed_toss_id |-> calc.max_id,
                      last_processed_winner_id |-> calc.state.last_processed_winner_id]
                ELSE calculator_state
    /\ calc' = [CalcIdle EXCEPT !.pc = "winner"]
    /\ UNCHANGED <<engineRest, tables, crashes, user_points, user_point_events,
                   user_referrals, fed, chist>>

\* process_winner_events up to its COMMIT (or its rollback); fail_at as in TossBatch
WinnerBatch ==
    /\ calc.pc = "winner"
    /\ \E read_ok \in BOOLEAN :
          LET state == IF read_ok THEN calculator_state ELSE ZeroState
              last_id == state.last_processed_winner_id
              events == SelectUnprocessed(tables["LuckyWinnerSelected"], last_id)
          IN  \E fail_at \in 0..(IF events = <<>> THEN 0 ELSE Len(events) + 1) :
              LET db == IF fail_at = 0
                        THEN AwardWinners(LedgerDb, events, 1)
                        ELSE Rollback(LedgerDb,
                                      AwardWinners(LedgerDb, FirstN(events, fail_at - 1), 1))
                  cost == (IF read_ok THEN 0 ELSE 1) + (IF fail_at = 0 THEN 0 ELSE 1)
              IN  /\ failures + cost <= MaxFailures
                  /\ failures' = failures + cost
                  /\ user_points' = db.up
                  /\ user_point_events' = db.upe
                  /\ tables' = [tables EXCEPT !["LuckyWinnerSelected"] = db.win]
                  /\ calc' = IF events # <<>> /\ fail_at = 0
                             THEN [pc |-> "winner_state", state |-> state,
                                   max_id |-> MaxId(last_id, events)]
                             ELSE CalcIdle
                  /\ chist' = [chist EXCEPT !.rolled_back = fail_at >= 2]
    /\ UNCHANGED <<engineRest, crashes, user_referrals, calculator_state, fed>>

\* process_winner_events after its COMMIT: update_calculator_state
WinnerCursor ==
    /\ calc.pc = "winner_state"
    /\ \E update_ok \in BOOLEAN :
          /\ failures + (IF update_ok THEN 0 ELSE 1) <= MaxFailures
          /\ failures' = failures + (IF update_ok THEN 0 ELSE 1)
          /\ calculator_state' =
                IF update_ok /\ calc.max_id > calc.state.last_processed_winner_id
                THEN [last_processed_toss_id |-> calc.state.last_processed_toss_id,
                      last_processed_winner_id |-> calc.max_id]
                ELSE calculator_state
    /\ calc' = CalcIdle
    /\ UNCHANGED <<engineRest, tables, crashes, user_points, user_point_events,
                   user_referrals, fed, chist>>

\* the calculator process dies and the next scheduled run starts from the top
CalcCrash ==
    /\ crashes < MaxCrashes
    /\ calc.pc # "toss"
    /\ crashes' = crashes + 1
    /\ chist' = [chist EXCEPT !.crashed = @ \/ calc.pc \in {"toss_state", "winner_state"}]
    /\ calc' = CalcIdle
    /\ UNCHANGED <<engineRest, tables, failures, user_points, user_point_events,
                   user_referrals, calculator_state, fed>>

UsedCodes ==
    {user_referrals[a].referral_code : a \in {b \in DOMAIN user_referrals : user_referrals[b].exists}}

\* faulty variant: the new record is inserted as activated
NewReferralActivated(referral_code) ==
    [NoReferral EXCEPT !.exists = TRUE, !.referral_code = referral_code, !.is_activated = 1]

\* INSERT INTO user_referrals (address, referral_code, created_at, is_activated,
\* referral_points_earned) VALUES (?, ?, ?, 0, 0)
NewReferral(referral_code) == [NoReferral EXCEPT !.exists = TRUE, !.referral_code = referral_code]

\* PointsCalculator.create_user_referral, ReferralSystem.get_or_create_user_referral
CreateUserReferral(address) ==
    /\ ~user_referrals[address].exists
    /\ \E referral_code \in Codes \ UsedCodes :
          user_referrals' = [user_referrals EXCEPT ![address] = NewReferral(referral_code)]
    /\ UNCHANGED <<engineRest, tables, failures, crashes, user_points, user_point_events,
                   calculator_state, calc, fed, chist>>

\* SELECT address FROM user_referrals WHERE referral_code = ?
ReferrerByCode(ur, referral_code) ==
    {a \in DOMAIN ur : ur[a].exists /\ ur[a].referral_code = referral_code}

ReferrersOf(referral_code) == ReferrerByCode(user_referrals, referral_code)

\* faulty variant: a user who has a referrer may apply another code
HasReferrerIgnored(ur, user_address) == FALSE

\* if result and result[0]: "User already has a referrer"
HasReferrer(ur, user_address) == ur[user_address].referrer_address # NoAddr

\* faulty variant: a user may apply their own code
SelfReferralAllowed(user_address, referrer_address) == FALSE

\* if user_address == referrer_address: "Cannot refer yourself"
SelfReferral(user_address, referrer_address) == user_address = referrer_address

\* the three checks of apply_referral_code, in the order of the code; "none" when
\* the call passes them
Rejection(ur, user_address, referral_code) ==
    IF HasReferrer(ur, user_address)
    THEN "User already has a referrer"
    ELSE IF ReferrerByCode(ur, referral_code) = {}
    THEN "Invalid referral code"
    ELSE IF SelfReferral(user_address, CHOOSE a \in ReferrerByCode(ur, referral_code) : TRUE)
    THEN "Cannot refer yourself"
    ELSE "none"

Rejections == {"User already has a referrer", "Invalid referral code", "Cannot refer yourself"}

\* the record of the applicant is created if it does not exist
InsertReferral(ur, user_address, new_code) ==
    IF ur[user_address].exists THEN ur ELSE [ur EXCEPT ![user_address] = NewReferral(new_code)]

\* UPDATE user_referrals SET referrer_address = ? WHERE address = ?
SetReferrer(ur, user_address, referrer_address) ==
    IF ur[user_address].exists
    THEN [ur EXCEPT ![user_address].referrer_address = referrer_address]
    ELSE ur

ApplyOutcomes == {"ok", "error", "update_error"}

\* ReferralSystem.apply_referral_code: one transaction; any database error rolls
\* it back and returns (False, "Error: ...")
ReferralSystem_apply_referral_code(ur, user_address, referral_code, new_code, outcome) ==
    LET rejection == Rejection(ur, user_address, referral_code)
        referrer_address == CHOOSE a \in ReferrerByCode(ur, referral_code) : TRUE
    IN  IF outcome = "error" THEN [ur |-> ur, ok |-> FALSE, msg |-> "Error"]
        ELSE IF rejection # "none" THEN [ur |-> ur, ok |-> FALSE, msg |-> rejection]
        ELSE IF outcome = "update_error" THEN [ur |-> ur, ok |-> FALSE, msg |-> "Error"]
        ELSE [ur |-> SetReferrer(InsertReferral(ur, user_address, new_code),
                                 user_address, referrer_address),
              ok |-> TRUE, msg |-> "Referral code applied successfully"]

\* PointsCalculator.apply_referral_code: create_user_referral commits on its own
\* connection before the UPDATE, so an error of the UPDATE leaves the new record
PointsCalculator_apply_referral_code(ur, user_address, referral_code, new_code, outcome) ==
    LET rejection == Rejection(ur, user_address, referral_code)
        referrer_address == CHOOSE a \in ReferrerByCode(ur, referral_code) : TRUE
        created == InsertReferral(ur, user_address, new_code)
    IN  IF outcome = "error" THEN [ur |-> ur, ok |-> FALSE, msg |-> "Error"]
        ELSE IF rejection # "none" THEN [ur |-> ur, ok |-> FALSE, msg |-> rejection]
        ELSE IF outcome = "update_error" THEN [ur |-> created, ok |-> FALSE, msg |-> "Error"]
        ELSE [ur |-> SetReferrer(created, user_address, referrer_address),
              ok |-> TRUE, msg |-> "Referral code applied successfully"]

\* generate_referral_code, called only when the applicant has no record
NewCodesFor(user_address) ==
    IF user_referrals[user_address].exists THEN {NoCode} ELSE Codes \ UsedCodes

\* PointsCalculator.apply_referral_code
ApplyReferralCode(user_address, referral_code) ==
    /\ user_referrals' \in
          {PointsCalculator_apply_referral_code(user_referrals, user_address, referral_code,
                                                new_code, outcome).ur :
             new_code \in NewCodesFor(user_address), outcome \in ApplyOutcomes}
    /\ UNCHANGED <<engineRest, tables, failures, crashes, user_points, user_point_events,
                   calculator_state, calc, fed, chist>>

\* ReferralSystem.check_and_activate_referral
CheckAndActivateReferral(user_address) ==
    LET rec == user_referrals[user_address]
        referrer_address == rec.referrer_address
        up1 == EnsureUser(user_points, referrer_address, REFERRAL_BONUS_POINTS,
                          REFERRAL_BONUS_POINTS)
    IN  /\ rec.exists
        /\ referrer_address # NoAddr
        /\ rec.is_activated # 1
        /\ user_referrals' = [user_referrals EXCEPT ![user_address].is_activated = 1,
                                                    ![user_address].activated_at = "set"]
        /\ user_points' = [up1 EXCEPT ![referrer_address].total_points =
                                          @ + REFERRAL_BONUS_POINTS,
                                      ![referrer_address].referral_points =
                                          @ + REFERRAL_BONUS_POINTS]
        /\ user_point_events' = Append(user_point_events,
                                       PointEvent(referrer_address, "referral",
                                                  REFERRAL_BONUS_POINTS,
                                                  ReferralTx(user_address), "referral"))
        /\ UNCHANGED <<engineRest, tables, failures, crashes, calculator_state, calc, fed,
                       chist>>

InitCalc == Init

NextCalc ==
    \/ IndexerCommit
    \/ TossBatch
    \/ TossCursor
    \/ WinnerBatch
    \/ WinnerCursor
    \/ CalcCrash
    \/ \E a \in Addresses : CreateUserReferral(a)
    \/ \E a \in Addresses, code \in Codes : ApplyReferralCode(a, code)
    \/ \E a \in Addresses : CheckAndActivateReferral(a)

SpecCalc == InitCalc /\ [][NextCalc]_vars

(***************************************************************************)
(* The calculator next to the points reset of recalculate_points.py        *)
(***************************************************************************)
\* reset_points_data: DELETE FROM user_points, DELETE FROM user_point_events and
\* the calculator_state row set to 0, 0 in one transaction; the event tables
\* and user_referrals are not touched
ResetPointsData ==
    /\ user_points' = [a \in Addresses |-> NoPoints]
    /\ user_point_events' = <<>>
    /\ calculator_state' = ZeroState
    /\ UNCHANGED <<engineRest, tables, failures, crashes, user_referrals, calc, fed, chist>>

\* reset_points_data: a statement raises, conn.rollback() and the error is raised again
ResetPointsDataFails ==
    /\ failures < MaxFailures
    /\ failures' = failures + 1
    /\ UNCHANGED <<engineRest, tables, crashes, user_points, user_point_events,
                   user_referrals, calculator_state, calc, fed, chist>>

InitReset == Init

NextReset ==
    \/ IndexerCommit
    \/ TossBatch
    \/ TossCursor
    \/ WinnerBatch
    \/ WinnerCursor
    \/ ResetPointsData
    \/ ResetPointsDataFails

SpecReset == InitReset /\ [][NextReset]_vars

(***************************************************************************)
(* The calculator invoked again and again (scheduler.py runs               *)
(* run_points_calculation at a fixed interval) while the indexer commits   *)
(* batches of logs.  Storage errors and crashes are finite.                *)
(***************************************************************************)
RunPointsCalculation == TossBatch \/ TossCursor \/ WinnerBatch \/ WinnerCursor

NextAward == IndexerCommit \/ RunPointsCalculation \/ CalcCrash

SpecAward == InitCalc /\ [][NextAward]_vars /\ WF_vars(RunPointsCalculation)

(***************************************************************************)
(* Referral operations with the result of every apply_referral_code call   *)
(***************************************************************************)
RefAddresses == {"a1", "a2", "a3"}

InitRef ==
    /\ chain_head = Head0
    /\ last_block = START_BLOCK
    /\ tables = EmptyTables
    /\ last_indexed_block = GetLastIndexedBlock(START_BLOCK)
    /\ current_batch_size = INITIAL_BATCH_SIZE
    /\ pc = "poll"
    /\ safe_block = 0
    /\ range = NoRange
    /\ pending = <<>>
    /\ block_num = 0
    /\ success = TRUE
    /\ failures = 0
    /\ crashes = 0
    /\ fetch = NoFetch
    /\ hist = NewCycle
    /\ lp = NoReplay
    /\ user_points = [a \in RefAddresses |-> NoPoints]
    /\ user_point_events = <<>>
    /\ user_referrals = [a \in RefAddresses |-> NoReferral]
    /\ calculator_state = ZeroState
    /\ calc = CalcIdle
    /\ fed = 0
    /\ chist = NoCalcHistory
    /\ sessions = NoSessions

\* the call and its return value
Called(user_address, referral_code, res) ==
    [chist EXCEPT !.applied = [user_address |-> user_address,
                               referral_code |-> referral_code,
                               ok |-> res.ok, msg |-> res.msg, flip |-> ~@.flip]]

\* app.py, POST /referral/apply: referral_system.apply_referral_code
ReferralSystemApply(user_address, referral_code) ==
    /\ \E new_code \in NewCodesFor(user_address), outcome \in ApplyOutcomes :
          LET res == ReferralSystem_apply_referral_code(
                         user_referrals, user_address, referral_code, new_code, outcome)
          IN  /\ user_referrals' = res.ur
              /\ chist' = Called(user_address, referral_code, res)
    /\ UNCHANGED <<engineRest, tables, failures, crashes, user_points, user_point_events,
                   calculator_state, calc, fed>>

\* PointsCalculator.apply_referral_code
PointsCalculatorApply(user_address, referral_code) ==
    /\ \E new_code \in NewCodesFor(user_address), outcome \in ApplyOutcomes :
          LET res == PointsCalculator_apply_referral_code(
                         user_referrals, user_address, referral_code, new_code, outcome)
          IN  /\ user_referrals' = res.ur
              /\ chist' = Called(user_address, referral_code, res)
    /\ UNCHANGED <<engineRest, tables, failures, crashes, user_points, user_point_events,
                   calculator_state, calc, fed>>

NextRef ==
    \/ \E a \in RefAddresses : CreateUserReferral(a)
    \/ \E a \in RefAddresses, code \in Codes : ReferralSystemApply(a, code)
    \/ \E a \in RefAddresses, code \in Codes : PointsCalculatorApply(a, code)
    \/ \E a \in RefAddresses : CheckAndActivateReferral(a)

SpecRef == InitRef /\ [][NextRef]_vars

(***************************************************************************)
(* TokenConfig.calculate_points.  Python computes it in IEEE-754 doubles:  *)
(* a double is kept here as m * 2^e with m a natural number of at most     *)
(* DoubleBits bits, held as a little-endian sequence of limbs, and every   *)
(* operation rounds its exact result to nearest, ties to even.             *)
(***************************************************************************)
DoubleBits == 53
LimbBits == 15
LimbBase == 2^LimbBits

RECURSIVE Trim(_)
Trim(a) == IF a = <<>> \/ a[Len(a)] # 0 THEN a ELSE Trim(SubSeq(a, 1, Len(a) - 1))

RECURSIVE BigFromInt(_)
BigFromInt(n) == IF n = 0 THEN <<>> ELSE <<n % LimbBase>> \o BigFromInt(n \div LimbBase)

RECURSIVE BigToInt(_)
BigToInt(a) == IF a = <<>> THEN 0 ELSE Head(a) + LimbBase * BigToInt(Tail(a))

RECURSIVE AddCarry(_, _, _)
AddCarry(a, b, c) ==
    IF a = <<>> /\ b = <<>>
    THEN BigFromInt(c)
    ELSE LET x == (IF a = <<>> THEN 0 ELSE Head(a)) + (IF b = <<>> THEN 0 ELSE Head(b)) + c
         IN  <<x % LimbBase>> \o AddCarry(IF a = <<>> THEN a ELSE Tail(a),
                                          IF b = <<>> THEN b ELSE Tail(b),
                                          x \div LimbBase)

BigAdd(a, b) == Trim(AddCarry(a, b, 0))

RECURSIVE MulSmallCarry(_, _, _)
MulSmallCarry(a, k, c) ==
    IF a = <<>>
    THEN BigFromInt(c)
    ELSE LET x == Head(a) * k + c
         IN  <<x % LimbBase>> \o MulSmallCarry(Tail(a), k, x \div LimbBase)

\* a * k for 0 <= k < LimbBase
BigMulSmall(a, k) == Trim(MulSmallCarry(a, k, 0))

ShiftLimbs(a, n) == IF a = <<>> THEN a ELSE [i \in 1..n |-> 0] \o a

RECURSIVE BigMul(_, _)
BigMul(a, b) ==
    IF b = <<>>
    THEN <<>>
    ELSE BigAdd(BigMulSmall(a, Head(b)), ShiftLimbs(BigMul(a, Tail(b)), 1))

\* quotient and remainder of a by d, 0 < d <= 2 * LimbBase
RECURSIVE QuotRem(_, _)
QuotRem(a, d) ==
    IF a = <<>>
    THEN [q |-> <<>>, r |-> 0]
    ELSE LET hi == QuotRem(Tail(a), d)
             x == hi.r * LimbBase + Head(a)
         IN  [q |-> <<x \div d>> \o hi.q, r |-> x % d]

RECURSIVE IntBitLen(_)
IntBitLen(n) == IF n = 0 THEN 0 ELSE 1 + IntBitLen(n \div 2)

BitLen(a) == IF a = <<>> THEN 0 ELSE (Len(a) - 1) * LimbBits + IntBitLen(a[Len(a)])

\* bit i of a, bit 0 the least significant
Bit(a, i) ==
    LET k == i \div LimbBits + 1
    IN  IF k > Len(a) THEN 0 ELSE (a[k] \div 2^(i % LimbBits)) % 2

LowBitsZero(a, n) == \A i \in 0..(n - 1) : Bit(a, i) = 0

\* a * 2^n
ShL(a, n) == ShiftLimbs(BigMulSmall(a, 2^(n % LimbBits)), n \div LimbBits)

\* floor(a / 2^n)
ShR(a, n) ==
    LET k == n \div LimbBits
    IN  IF k >= Len(a)
        THEN <<>>
        ELSE Trim(QuotRem(SubSeq(a, k + 1, Len(a)), 2^(n % LimbBits)).q)

\* the double nearest to m * 2^e, ties to even
RoundToDouble(m, e) ==
    IF BitLen(m) <= DoubleBits
    THEN [m |-> m, e |-> e]
    ELSE LET s == BitLen(m) - DoubleBits
             q == ShR(m, s)
             up == /\ Bit(m, s - 1) = 1
                   /\ ~LowBitsZero(m, s - 1) \/ Bit(q, 0) = 1
         IN  [m |-> IF up THEN BigAdd(q, <<1>>) ELSE q, e |-> e + s]

\* float(n) of a small integer
FromInt(n) == [m |-> BigFromInt(n), e |-> 0]

\* Python's a / b of two integers, 0 <= a and 0 < b: the correctly rounded
\* quotient; the last bit of the numerator's quotient is a sticky bit
TrueDivide(a, b) ==
    LET k == 5 * LimbBits
        qr == QuotRem(ShL(BigFromInt(a), k), b)
        sticky == IF qr.r = 0 THEN 0 ELSE 1
    IN  RoundToDouble(BigAdd(ShL(Trim(qr.q), 1), BigFromInt(sticky)), 0 - k - 1)

\* x * y of two doubles
FMul(x, y) == RoundToDouble(BigMul(x.m, y.m), x.e + y.e)

\* x + y of two doubles
FAdd(x, y) ==
    LET e == Min(x.e, y.e)
    IN  RoundToDouble(BigAdd(ShL(x.m, x.e - e), ShL(y.m, y.e - e)), e)

\* int(x) of a double x >= 0
FTrunc(x) == IF x.e >= 0 THEN BigToInt(ShL(x.m, x.e)) ELSE BigToInt(ShR(x.m, 0 - x.e))

\* TokenConfig.calculate_points for a known token; amounts in a common unit of
\* the token's smallest unit (the quotient of two integers does not change
\* when both are scaled)
calculate_points(amount_int, min_amount, max_amount, multiplier) ==
    IF min_amount >= max_amount
    THEN 1
    ELSE LET clamped_amount == Max(min_amount, Min(amount_int, max_amount))
             range_size == max_amount - min_amount
             position_in_range == clamped_amount - min_amount
             normalized_position == TrueDivide(position_in_range, range_size)
             base_points == FAdd(FromInt(1), FMul(normalized_position, FromInt(99)))
             calculated_points == FMul(base_points, TrueDivide(multiplier, 10))
         IN  Max(1, FTrunc(calculated_points))

MaxMultiplier == 25

\* get_pond_config: 0.1 .. 10 of an 18-decimals token in units of 10^16, and
\* 100 .. 10000 of a 6-decimals token in units of 10^8
PondRanges == {[min |-> 10, max |-> 1000], [min |-> 1, max |-> 100]}

\* toss amounts below, at, inside, at the top of and above the ranges
TossAmounts == {0, 1, 5, 10, 50, 100, 505, 1000, 1500}

InitPoints ==
    /\ chain_head = Head0
    /\ last_block = START_BLOCK
    /\ tables = EmptyTables
    /\ last_indexed_block = GetLastIndexedBlock(START_BLOCK)
    /\ current_batch_size = INITIAL_BATCH_SIZE
    /\ pc = "poll"
    /\ safe_block = 0
    /\ range = NoRange
    /\ pending = <<>>
    /\ block_num = 0
    /\ success = TRUE
    /\ failures = 0
    /\ crashes = 0
    /\ fetch = NoFetch
    /\ hist = NewCycle
    /\ lp = NoReplay
    /\ user_points = [a \in Addresses |-> NoPoints]
    /\ user_point_events = <<>>
    /\ user_referrals = [a \in Addresses |-> NoReferral]
    /\ calculator_state = ZeroState
    /\ calc = CalcIdle
    /\ fed = 0
    /\ sessions = NoSessions
    /\ \E amount \in TossAmounts, pond \in PondRanges, multiplier \in 1..MaxMultiplier :
          chist = [NoCalcHistory EXCEPT !.points =
                      [amount |-> amount, min_amount |-> pond.min, max_amount |-> pond.max,
                       multiplier |-> multiplier, result |-> 0]]

\* the call returns
CalculatePoints ==
    /\ chist.points.result = 0
    /\ chist' = [chist EXCEPT !.points.result =
                     calculate_points(chist.points.amount, chist.points.min_amount,
                                      chist.points.max_amount, chist.points.multiplier)]
    /\ UNCHANGED <<idxVars, lp, user_points, user_point_events, user_referrals,
                   calculator_state, calc, fed, fetch, sessions>>

NextPoints == CalculatePoints

SpecPoints == InitPoints /\ [][NextPoints]_vars

(***************************************************************************)
(* Batch adaptivity: the batch size over any sequence of failed and        *)
(* successful process_block_range calls, from every initial size in        *)
(* [min_batch_size, max_batch_size]                                        *)
(***************************************************************************)
MaxBatchFailures == 6    \* failed range fetches per behaviour

InitBatch ==
    /\ chain_head = Head0
    /\ last_block = START_BLOCK
    /\ tables = EmptyTables
    /\ last_indexed_block = GetLastIndexedBlock(START_BLOCK)
    /\ current_batch_size \in min_batch_size..max_batch_size
    /\ pc = "poll"
    /\ safe_block = 0
    /\ range = NoRange
    /\ pending = <<>>
    /\ block_num = 0
    /\ success = TRUE
    /\ failures = 0
    /\ crashes = 0
    /\ fetch = NoFetch
    /\ hist = NewCycle
    /\ lp = NoReplay
    /\ InitLedger

\* process_block_range: try_get_logs failed, the batch size is reduced
BatchFetchFailed ==
    /\ failures < MaxBatchFailures
    /\ failures' = failures + 1
    /\ success' = FALSE
    /\ current_batch_size' = ShrinkBatch(current_batch_size)
    /\ UNCHANGED <<chain_head, last_block, tables, last_indexed_block, pc, safe_block,
                   range, pending, block_num, crashes, hist, lp, ledgerVars, fetch>>

\* process_block_range: the range was fetched and processed, the batch size grows
BatchProcessed ==
    /\ success' = TRUE
    /\ current_batch_size' = GrowBatch(current_batch_size)
    /\ UNCHANGED <<chain_head, last_block, tables, last_indexed_block, pc, safe_block,
                   range, pending, block_num, failures, crashes, hist, lp, ledgerVars, fetch>>

NextBatch == BatchFetchFailed \/ BatchProcessed

SpecBatch == InitBatch /\ [][NextBatch]_vars

(***************************************************************************)
(* Claims about the Ingestion Engine                                       *)
(***************************************************************************)
ChainLogs == Range(ChainLogSeq)

\* number of rows of the log's table that carry the log's natural key
RowsFor(tbls, log) ==
    Cardinality({i \in 1..Len(tbls[log.kind]) : tbls[log.kind][i].key = NaturalKey(log)})

\* C1: every decodable tracked event of every block b with
\* START_BLOCK < b <= last_block is present in the Event Store: no failure moves
\* the checkpoint past a block whose events are not stored.
C1_CheckpointOnlyPastStoredEvents ==
    \A l \in ChainLogs :
        (Decodable(l) /\ l.block > START_BLOCK /\ l.block <= last_block)
            => RowsFor(tables, l) >= 1

C5_CheckpointWithinSafeBlock == [][last_block' # last_block => last_block' <= safe_block]_vars

\* C5 witness: a poll cycle that bisected its range has written the checkpoint
\* and the checkpoint sits exactly on the safe block.
C5_Witness ==
    /\ hist.bisected
    /\ pc = "poll"
    /\ last_block = safe_block
    /\ last_block > START_BLOCK

\* C9: once the batch insert transaction of a fetched range has been rolled back,
\* the poll cycle leaves last_block unchanged (so the next cycle starts at the
\* same block).
C9_RollbackKeepsCheckpoint == [][hist.rolled_back => last_block' = last_block]_vars

\* C2: after a crash and restart, once a range has been re-processed without
\* failure, every decodable log of the range has exactly one row under its
\* natural key and the checkpoint equals the range's upper bound.
C2_ReplayExactlyOnce ==
    (hist.crashed_at # "none" /\ hist.clean # NoRange) =>
        /\ \A l \in DecodableIn(LogsInRange(hist.clean.s, hist.clean.e)) :
               RowsFor(tables, l) = 1
        /\ last_block = hist.clean.e

\* C2 witness: the crash hit between the committed insert and
\* update_last_indexed_block, and the range starting at the same block, which
\* holds events, has been re-processed.
C2_Witness ==
    /\ hist.crashed_at = "advance"
    /\ hist.clean # NoRange
    /\ hist.clean.s = START_BLOCK + 1
    /\ DecodableIn(LogsInRange(hist.clean.s, hist.clean.e)) # {}
    /\ last_block = hist.clean.e

\* a log whose processing executes an INSERT
Insertable(log) == Decodable(log) /\ ~MissingParticipant(log)

\* C3: once a list of logs has been processed and committed, processing the same
\* list again leaves every event table as it was; each table holds one row per
\* natural key, and a discarded duplicate does not keep the other logs of the
\* batch from being stored.
C3_ReplayIdempotent ==
    lp.committed =>
        /\ tables = lp.once
        /\ \A i \in 1..Len(lp.logs) :
               Insertable(lp.logs[i]) => RowsFor(tables, lp.logs[i]) = 1
        /\ \A k \in TrackedKinds : Cardinality(KeysOf(tables[k])) = Len(tables[k])

\* C3 witness: a list holding two logs with one natural key was committed and
\* then processed a second time.
C3_Witness ==
    /\ lp.committed
    /\ lp.runs = 2
    /\ Len(lp.logs) = 2
    /\ lp.logs[1] # lp.logs[2]
    /\ Insertable(lp.logs[1])
    /\ NaturalKey(lp.logs[1]) = NaturalKey(lp.logs[2])
    /\ TotalRows(tables) = 1

(***************************************************************************)
(* Claims about the Ledger Calculator                                      *)
(***************************************************************************)
\* number of user_point_events rows of type event_type awarded for the event row r
AwardsFor(event_type, r) ==
    Cardinality({i \in 1..Len(user_point_events) :
                    /\ user_point_events[i].event_type = event_type
                    /\ user_point_events[i].tx_hash = r.tx
                    /\ user_point_events[i].pond_type = r.pond
                    /\ user_point_events[i].address = r.addr})

\* the event row is awarded at most once, exactly once as soon as it is flagged
\* processed or the cursor has passed it, and not before
AwardedOnce(event_type, r, cursor) ==
    /\ AwardsFor(event_type, r) <= 1
    /\ (r.points_processed = 1) <=> (AwardsFor(event_type, r) = 1)
    /\ r.id <= cursor => AwardsFor(event_type, r) = 1

\* C6: across any sequence of run_points_calculation invocations, also when one
\* dies between the award COMMIT and the cursor update, every coin_tossed_events
\* row has exactly one 'toss' point event and every lucky_winner_selected_events
\* row exactly one 'winner' point event once it is processed, and never two.
C6_EachEventAwardedOnce ==
    /\ \A r \in Range(tables["CoinTossed"]) :
          AwardedOnce("toss", r, calculator_state.last_processed_toss_id)
    /\ \A r \in Range(tables["LuckyWinnerSelected"]) :
          AwardedOnce("winner", r, calculator_state.last_processed_winner_id)

\* C6 witness: a calculator run died between a COMMIT and its cursor update, and
\* later runs have processed all three tosses and the winner
C6_Witness ==
    /\ chist.crashed
    /\ Len(tables["CoinTossed"]) = 3
    /\ \A r \in Range(tables["CoinTossed"]) : r.points_processed = 1
    /\ \A r \in Range(tables["LuckyWinnerSelected"]) : r.points_processed = 1
    /\ Len(tables["LuckyWinnerSelected"]) = 1
    /\ calculator_state.last_processed_toss_id = 3

RECURSIVE SumPointsFrom(_, _)
SumPointsFrom(address, i) ==
    IF i > Len(user_point_events)
    THEN 0
    ELSE (IF user_point_events[i].address = address THEN user_point_events[i].points ELSE 0)
         + SumPointsFrom(address, i + 1)

\* C7: for every address, user_points.total_points equals the sum of points over
\* the address's user_point_events rows, also for a referrer without a
\* user_points row before the activation that credits it.
C7_TotalIsSumOfEvents ==
    \A a \in Addresses : user_points[a].total_points = SumPointsFrom(a, 1)

\* C8: for every address, total_points = toss_points + winner_points +
\* referral_points: every ledger mutation adds the same amount to one category
\* field and to the total.
C8_TotalIsSumOfCategories ==
    \A a \in Addresses :
       user_points[a].total_points =
          user_points[a].toss_points + user_points[a].winner_points
             + user_points[a].referral_points

\* C10: every toss award made by the calculator is at least 1 point, also for a
\* toss whose amount times the multiplier is below one whole point.
C10_TossAwardAtLeastOne ==
    \A i \in 1..Len(user_point_events) :
       user_point_events[i].event_type = "toss" => user_point_events[i].points >= 1

(***************************************************************************)
(* Claims about batch adaptivity                                           *)
(***************************************************************************)
\* C17: after any sequence of successful and failed process_block_range calls
\* that starts with a batch size inside [min_batch_size, max_batch_size],
\* min_batch_size <= current_batch_size <= max_batch_size in every state.
C17_BatchSizeWithinBounds ==
    min_batch_size <= current_batch_size /\ current_batch_size <= max_batch_size

\* C17 witness: the batch size was reduced by failed fetches and has grown back
\* to the maximum.
C17_Witness ==
    /\ failures >= 1
    /\ success
    /\ current_batch_size = max_batch_size

\* C18: a failed range fetch sets the batch size to max(min, floor(0.5 * old)),
\* strictly smaller unless it was already the minimum; a processed range sets it
\* to min(max, floor(1.2 * old)), strictly larger unless it was already the maximum.
C18_BatchSizeSteps ==
    [][/\ ~success' =>
            /\ current_batch_size' = Max(min_batch_size, current_batch_size \div 2)
            /\ current_batch_size > min_batch_size => current_batch_size' < current_batch_size
            /\ current_batch_size = min_batch_size => current_batch_size' = min_batch_size
       /\ success' =>
            /\ current_batch_size' = Min(max_batch_size, (12 * current_batch_size) \div 10)
            /\ current_batch_size < max_batch_size => current_batch_size' > current_batch_size
            /\ current_batch_size = max_batch_size => current_batch_size' = max_batch_size]_vars

\* C18 witness: as many failed fetches as a behaviour may hold have brought the
\* batch size from above 300 down to the minimum.
C18_Witness ==
    /\ failures = MaxBatchFailures
    /\ ~success
    /\ current_batch_size = min_batch_size

(***************************************************************************)
(* Claims about the writers of the tables and the batch transaction        *)
(***************************************************************************)
\* C14: the Ledger Calculator never writes to the event tables or the ingestion
\* checkpoint, and the Ingestion Engine never writes to user_points,
\* user_point_events, user_referrals or calculator_state: a step changes the
\* event tables only when it is the indexer's commit, and the indexer's commit
\* changes no ledger table.
C14_OneWriterPerTable ==
    [][/\ tables' # tables => fed' # fed
       /\ fed' = fed => last_block' = last_block
       /\ fed' # fed => UNCHANGED <<user_points, user_point_events, user_referrals,
                                    calculator_state>>]_vars

\* the range whose logs the running process_logs call stores
StoringRange == IF pc = "single" THEN [s |-> block_num, e |-> block_num] ELSE range

\* C15: the decoded events of one fetched range are inserted all-or-nothing:
\* when process_logs has changed the event tables, every tracked event decoded
\* from the range has its row.
C15_BatchAllOrNothing ==
    [][tables' # tables =>
          \A l \in DecodableIn(LogsInRange(StoringRange.s, StoringRange.e)) :
             RowsFor(tables', l) = 1]_vars

(***************************************************************************)
(* Claims about failed calculator batches                                  *)
(***************************************************************************)
\* a call of process_coin_toss_events or process_winner_events that returns
\* without a COMMIT
BatchWithoutCommit ==
    \/ calc.pc = "toss" /\ calc'.pc = "winner"
    \/ calc.pc = "winner" /\ calc'.pc = "toss"

\* C16: when the processing of a row raises in process_coin_toss_events or
\* process_winner_events, the whole batch is rolled back: no user_points
\* change, no user_point_events row, no referral activation and no
\* points_processed flag of the batch persists, and the cursor keeps its value.
C16_FailedBatchLeavesNoTrace ==
    [][BatchWithoutCommit =>
          UNCHANGED <<user_points, user_point_events, user_referrals, tables,
                      calculator_state>>]_vars

\* C16 witness: a batch was rolled back after it had processed a row of a referred
\* user, and neither a point event, nor a flag, nor the activation is there.
C16_Witness ==
    /\ chist.rolled_back
    /\ user_point_events = <<>>
    /\ \E a \in Addresses :
          /\ user_referrals[a].referrer_address # NoAddr
          /\ user_referrals[a].is_activated = 0
          /\ \E r \in Range(tables["CoinTossed"]) : r.addr = a /\ r.points_processed = 0

(***************************************************************************)
(* Claims about the referral records                                       *)
(***************************************************************************)
\* the 'referral' point events written for the activation of user_address
ReferralEventsFor(upe, user_address) ==
    {i \in 1..Len(upe) : upe[i].event_type = "referral"
                          /\ upe[i].tx_hash = ReferralTx(user_address)}

\* the referred users of referrer_address whose referral is activated
ActivatedReferees(ur, referrer_address) ==
    {u \in Addresses : ur[u].referrer_address = referrer_address /\ ur[u].is_activated = 1}

\* what the ledger row of an address holds beyond its toss and winner points
ReferralCredit(up, address) ==
    up[address].total_points - up[address].toss_points - up[address].winner_points

\* C11: however often the activation runs for a referred user, there is exactly
\* one 'referral' point event for that user and the referrer is credited the
\* bonus once; is_activated is 1 after the first activation and stays 1, and a
\* later activation writes no further event.
C11_ActivationCreditsOnce ==
    [][/\ \A u \in Addresses :
             /\ Cardinality(ReferralEventsFor(user_point_events', u)) =
                   user_referrals'[u].is_activated
             /\ user_referrals[u].is_activated = 1 =>
                   /\ user_referrals'[u] = user_referrals[u]
                   /\ ReferralEventsFor(user_point_events', u) =
                         ReferralEventsFor(user_point_events, u)
       /\ \A r \in Addresses :
             ReferralCredit(user_points', r) =
                REFERRAL_BONUS_POINTS * Cardinality(ActivatedReferees(user_referrals', r))]_vars

\* an apply_referral_code call was made in this step
ApplyCalled == chist'.applied.flip # chist.applied.flip

\* C12: once referrer_address of a user is set, every later apply_referral_code
\* call for that user, with any code, is rejected, and referrer_address keeps
\* its first value through every referral operation.
C12_ReferrerSetOnce ==
    [][\A u \in DOMAIN user_referrals :
          user_referrals[u].referrer_address # NoAddr =>
             /\ user_referrals'[u].referrer_address = user_referrals[u].referrer_address
             /\ ApplyCalled /\ chist'.applied.user_address = u => ~chist'.applied.ok]_vars

\* C12 witness: a user who has a referrer applied the valid code of a third user
\* and was told that they already have a referrer.
C12_Witness ==
    LET call == chist.applied
    IN  /\ call.msg = "User already has a referrer"
        /\ \E r \in ReferrerByCode(user_referrals, call.referral_code) :
              /\ r # call.user_address
              /\ r # user_referrals[call.user_address].referrer_address

\* C13: apply_referral_code is rejected when the code resolves to no user or to
\* the applicant; a rejected call leaves every referral record as it was (no
\* record is created for the applicant); no record names its own address as
\* its referrer.
C13_RejectedApplyChangesNothing ==
    [][/\ ApplyCalled =>
             LET call == chist'.applied
                 referrers == ReferrerByCode(user_referrals, call.referral_code)
             IN  /\ referrers = {} \/ referrers = {call.user_address} => ~call.ok
                 /\ call.msg \in Rejections => user_referrals' = user_referrals
       /\ \A a \in DOMAIN user_referrals : user_referrals'[a].referrer_address # a]_vars

\* C13 witness: a user without a referrer applied their own code, was rejected,
\* and still has no referrer.
C13_Witness ==
    LET call == chist.applied
    IN  /\ call.msg = "Cannot refer yourself"
        /\ user_referrals[call.user_address].referral_code = call.referral_code
        /\ user_referrals[call.user_address].referrer_address = NoAddr

\* a referral code was applied to user_address in this step
AppliedTo(u) ==
    /\ user_referrals[u].referrer_address = NoAddr
    /\ user_referrals'[u].referrer_address # NoAddr

\* a toss of user_address has been processed by the calculator
HasProcessedToss(u) ==
    \E r \in Range(tables["CoinTossed"]) : r.addr = u /\ r.points_processed = 1

\* a successful apply_referral_code sets only referrer_address of the applicant,
\* creating the record first if there is none
C19_ApplySetsOnlyReferrer ==
    \A u \in DOMAIN user_referrals :
       AppliedTo(u) =>
          /\ UNCHANGED <<user_points, user_point_events>>
          /\ user_referrals'[u].is_activated = 0
          /\ \A v \in DOMAIN user_referrals \ {u} : user_referrals'[v] = user_referrals[v]
          /\ \E code \in Codes :
                user_referrals'[u] =
                   [(IF user_referrals[u].exists THEN user_referrals[u] ELSE NewReferral(code))
                      EXCEPT !.referrer_address = user_referrals'[u].referrer_address]

\* C19: a successful apply_referral_code sets only referrer_address of the
\* applicant (creating the record first if absent), leaves user_points and
\* user_point_events unchanged and is_activated at 0, so that no referral bonus
\* exists for a referred user before that user's first processed toss.
C19_NoBonusBeforeFirstToss ==
    [][/\ C19_ApplySetsOnlyReferrer
       /\ \A u \in DOMAIN user_referrals :
             \/ ReferralEventsFor(user_point_events', u) = {}
             \/ HasProcessedToss(u)']_vars

(***************************************************************************)
(* Claims about TokenConfig.calculate_points                               *)
(***************************************************************************)
\* C20: for a known token and a pond range min < max, calculate_points returns
\* at least 1; every amount <= min yields max(1, floor(multiplier / 10)) and
\* every amount >= max yields floor(100 * multiplier / 10); with the range
\* [0.1, 10], multiplier 10 and a toss of 0.05 it returns 1.
C20_PointsClampedToRange ==
    LET c == chist.points
    IN  c.result # 0 /\ c.min_amount < c.max_amount =>
           /\ c.result >= 1
           /\ c.amount <= c.min_amount => c.result = Max(1, c.multiplier \div 10)
           /\ c.amount >= c.max_amount => c.result = (100 * c.multiplier) \div 10
           /\ (c.min_amount = 10 /\ c.max_amount = 1000 /\ c.multiplier = 10 /\ c.amount = 5)
                 => c.result = 1

(***************************************************************************)
(* Claims about the life of a referral record                              *)
(***************************************************************************)
\* C21: a referral record only moves forward, Registered -> Referred ->
\* Activated: is_activated never returns from 1 to 0, referrer_address never
\* returns to null, and whenever is_activated = 1 the referrer_address is
\* non-null and activated_at is set.
C21_ReferralMovesForward ==
    [][\A u \in DOMAIN user_referrals :
          /\ user_referrals[u].exists => user_referrals'[u].exists
          /\ user_referrals[u].is_activated = 1 => user_referrals'[u].is_activated = 1
          /\ user_referrals[u].referrer_address # NoAddr =>
                user_referrals'[u].referrer_address # NoAddr
          /\ user_referrals'[u].is_activated = 1 =>
                /\ user_referrals'[u].referrer_address # NoAddr
                /\ user_referrals'[u].activated_at = "set"]_vars

\* C21 witness: one record was activated by a processed toss of its user while
\* the referrer's own record is still only registered.
C21_Witness ==
    \E u \in DOMAIN user_referrals :
       /\ user_referrals[u].is_activated = 1
       /\ HasProcessedToss(u)
       /\ LET r == user_referrals[u].referrer_address
          IN  user_referrals[r].exists /\ user_referrals[r].referrer_address = NoAddr

(***************************************************************************)
(* Claims about the fallbacks of process_block_range                       *)
(***************************************************************************)
\* process_block_range splits the range whose fetch failed
Bisects == pc = "range" /\ pc' = "range" /\ failures' = failures + 1

\* C22: when the fetch of a range [s, e] wider than min_batch_size fails, the
\* engine retries a first sub-range of minimum width and then the remainder of
\* the range; when every sub-range fetch succeeds, process_block_range returns
\* True with the checkpoint at e.
C22_BisectCoversTheRange ==
    [][/\ Bisects =>
             /\ range' = [s |-> range.s, e |-> range.s + min_batch_size]
             /\ pending' = << [s |-> range.s + min_batch_size + 1, e |-> range.e] >>
       /\ (pc = "advance" /\ pc' = "poll" /\ hist.bisected /\ failures = 1 /\ crashes = 0
             /\ last_indexed_block' # last_indexed_block) =>
             last_indexed_block' = hist.asked.e]_vars

\* process_single_block returns and the fallback loop takes its result
SingleBlockReturns ==
    pc = "single_update" /\ failures' = failures /\ crashes' = crashes

\* C23: in the one-block-at-a-time fallback the blocks are processed in
\* ascending order; the first block whose processing fails ends the invocation
\* with failure, no later block of the range is fetched, and the checkpoint
\* has been advanced to exactly that failing block.
C23_FallbackStopsAtFailingBlock ==
    [][SingleBlockReturns =>
          /\ last_indexed_block' = block_num
          /\ IF success /\ block_num < range.e
             THEN pc' = "single" /\ block_num' = block_num + 1 /\ range' = range
             ELSE pc' # "single" /\ block_num' = block_num
          /\ ~success => pc' = "poll" /\ range' = NoRange /\ pending' = <<>>]_vars

\* C23 witness: the fallback failed at a block inside the asked range, after an
\* earlier block of it; the checkpoint is at that block and the engine polls.
C23_Witness ==
    /\ pc = "poll"
    /\ ~success
    /\ last_indexed_block = block_num
    /\ hist.asked.s < block_num
    /\ block_num < hist.asked.e

(***************************************************************************)
(* Claims about try_get_logs and try_get_block                             *)
(***************************************************************************)
\* C24: try_get_logs and try_get_block make at most max_retries upstream calls,
\* return success at the first call that succeeds, return failure after the
\* last failed attempt, and sleep only between two attempts, never after the
\* last one.
C24_BoundedRetries ==
    /\ fetch.calls <= max_retries
    /\ \A i \in 1..(fetch.calls - 1) : fetch.outcomes[i] # "ok"
    /\ fetch.pc = "attempt" => Len(fetch.sleeps) = fetch.calls
    /\ fetch.pc = "sleep" => Len(fetch.sleeps) = fetch.calls - 1 /\ fetch.calls < max_retries
    /\ fetch.pc = "returned" =>
          /\ fetch.result = (fetch.outcomes[fetch.calls] = "ok")
          /\ Len(fetch.sleeps) = fetch.calls - 1
          /\ ~fetch.result =>
                fetch.calls = max_retries \/ fetch.outcomes[fetch.calls] = "invalid_range"

\* C24 witness: a call failed twice, slept twice, and succeeded at its last
\* attempt.
C24_Witness ==
    /\ fetch.pc = "returned"
    /\ fetch.result
    /\ fetch.calls = max_retries
    /\ Len(fetch.sleeps) = max_retries - 1

\* C25: an upstream call (log fetch or block fetch) that fails with an
\* invalid-range condition is not retried: the function returns failure after
\* that one attempt, without sleeping and without using the attempts left.
C25_InvalidRangeNotRetried ==
    \A i \in 1..fetch.calls :
       fetch.outcomes[i] = "invalid_range" =>
          /\ fetch.calls = i
          /\ fetch.pc = "returned"
          /\ ~fetch.result
          /\ Len(fetch.sleeps) = i - 1

RowsOf(tbls, log) ==
    {<<k, i>> \in TrackedKinds \X (1..Len(ChainLogSeq)) :
        i <= Len(tbls[k]) /\ tbls[k][i].tx = log.tx}

UndecodableIn(logs) == {l \in Range(logs) : ~Decodable(l)}

\* C27: every raw log produces at most one stored row, in the table of the
\* decoder that accepted it; a log no decoder accepts produces no row, and a
\* batch that holds such a log still commits the rows of its other logs and
\* still advances the checkpoint to the end of its range.
C27_UndecodableLogIsSkipped ==
    [][
        /\ \A l \in Range(ChainLogSeq) :
              /\ Cardinality(RowsOf(tables', l)) <= 1
              /\ \A r \in RowsOf(tables', l) : r[1] = l.kind
              /\ ~Decodable(l) => RowsOf(tables', l) = {}
        /\ (/\ pc = "range" /\ pc' = "advance" /\ hist'.pass_ok
            /\ UndecodableIn(LogsInRange(range.s, range.e)) # {})
             => \A d \in DecodableIn(LogsInRange(range.s, range.e)) :
                    Cardinality(RowsOf(tables', d)) = 1
        /\ (/\ pc = "advance" /\ failures' = failures /\ crashes' = crashes
            /\ UndecodableIn(LogsInRange(range.s, range.e)) # {})
             => /\ last_block' = range.e
                /\ tables' = tables
      ]_vars

\* C27 witness: a range holding the undecodable log and two decodable ones was
\* stored for the first time and the checkpoint moved to its end.
C27_Witness ==
    /\ pc = "poll"
    /\ hist.clean # NoRange
    /\ Cardinality(UndecodableIn(LogsInRange(hist.clean.s, hist.clean.e))) = 1
    /\ Cardinality(DecodableIn(LogsInRange(hist.clean.s, hist.clean.e))) >= 2
    /\ last_block = hist.clean.e
    /\ TotalRows(tables) = Cardinality(DecodableIn(LogsInRange(START_BLOCK + 1, last_block)))

(***************************************************************************)
(* Claims about the calculator cursors                                     *)
(***************************************************************************)
\* the ids of the rows of `table` behind the ledger entries of one event type,
\* in ledger order
AwardedIds(table, event_type) ==
    LET awards == SelectSeq(user_point_events, LAMBDA ev : ev.event_type = event_type)
    IN  [i \in 1..Len(awards) |->
            CHOOSE id \in 0..Len(table) :
                IF \E j \in 1..Len(table) : table[j].tx = awards[i].tx_hash
                THEN id > 0 /\ table[id].tx = awards[i].tx_hash
                ELSE id = 0]

StrictlyIncreasing(ids) == \A i, j \in 1..Len(ids) : i < j => ids[i] < ids[j]

ProcessedIds(table) == {0} \cup {table[i].id : i \in {j \in 1..Len(table) : table[j].points_processed = 1}}

LargestOf(S) == CHOOSE m \in S : \A x \in S : x <= m

\* the rows of one event kind are awarded in strictly increasing id order
C28_AwardedInIdOrder ==
    /\ StrictlyIncreasing(AwardedIds(tables["CoinTossed"], "toss"))
    /\ StrictlyIncreasing(AwardedIds(tables["LuckyWinnerSelected"], "winner"))

\* the cursor of a kind is written only by the step that follows the COMMIT of
\* a batch of that kind, and is set to the largest id of the batch
C28_CursorWrittenAfterCommit ==
    /\ calculator_state'.last_processed_toss_id # calculator_state.last_processed_toss_id
         => /\ calc.pc \in {"toss_state", "winner_state"}
            /\ calc.pc = "toss_state" =>
                  calculator_state'.last_processed_toss_id
                      = LargestOf(ProcessedIds(tables["CoinTossed"]))
    /\ calculator_state'.last_processed_winner_id # calculator_state.last_processed_winner_id
         => /\ calc.pc \in {"toss_state", "winner_state"}
            /\ calc.pc = "winner_state" =>
                  calculator_state'.last_processed_winner_id
                      = LargestOf(ProcessedIds(tables["LuckyWinnerSelected"]))

C28_CursorNeverDecreases ==
    /\ calculator_state'.last_processed_toss_id >= calculator_state.last_processed_toss_id
    /\ calculator_state'.last_processed_winner_id >= calculator_state.last_processed_winner_id

C28_OrderAndCommitParts == [][C28_AwardedInIdOrder' /\ C28_CursorWrittenAfterCommit]_vars

\* C28: within one event kind the rows are handled in strictly increasing id
\* order; the cursor is written once per batch, only after the batch
\* committed, and is set to the largest id of the batch; a cursor never
\* decreases from one invocation to the next.
C28_CursorMovesForward ==
    [][/\ C28_AwardedInIdOrder'
       /\ C28_CursorWrittenAfterCommit
       /\ C28_CursorNeverDecreases]_vars

C29_TossLeavesWinnerCursor ==
    calc.pc = "toss_state" =>
        calculator_state'.last_processed_winner_id = calculator_state.last_processed_winner_id

C29_WinnerLeavesTossCursor ==
    calc.pc = "winner_state" =>
        calculator_state'.last_processed_toss_id = calculator_state.last_processed_toss_id

\* C29: the toss cursor and the winner cursor are independent: a toss batch
\* never changes the winner cursor and a winner batch never changes the toss
\* cursor, also when reading the calculator state failed.
C29_CursorsIndependent ==
    [][C29_TossLeavesWinnerCursor /\ C29_WinnerLeavesTossCursor]_vars

\* the same with a calculator state that was read successfully
C29_IndependentAfterGoodRead ==
    [][calc.state = calculator_state =>
          C29_TossLeavesWinnerCursor /\ C29_WinnerLeavesTossCursor]_vars

(***************************************************************************)
(* Claims about the point-event log                                        *)
(***************************************************************************)
IsPrefix(s, u) == Len(s) <= Len(u) /\ SubSeq(u, 1, Len(s)) = s

\* the rows of an event table a step marks as processed
NewlyProcessed(kind) ==
    {i \in 1..Len(tables[kind]) :
        tables[kind][i].points_processed = 0 /\ tables'[kind][i].points_processed = 1}

\* the referrals a step activates
NewlyActivated ==
    {a \in Addresses : user_referrals[a].is_activated = 0 /\ user_referrals'[a].is_activated = 1}

\* no step changes or removes a row of user_point_events
C30_RowsAreKept == IsPrefix(user_point_events, user_point_events')

\* every award (a processed toss row, a processed winner row, an activated
\* referral) appends exactly one row
C30_OneRowPerAward ==
    Len(user_point_events') - Len(user_point_events)
        = Cardinality(NewlyProcessed("CoinTossed"))
            + Cardinality(NewlyProcessed("LuckyWinnerSelected"))
            + Cardinality(NewlyActivated)

\* C30: user_point_events is append-only: no operation that writes the ledger
\* (toss award, winner award, referral activation, points reset) changes or
\* deletes an existing row, and each award appends exactly one row.
C30_PointEventsAppendOnly == [][C30_RowsAreKept /\ C30_OneRowPerAward]_vars

\* the same for every operation but the points reset
C30_AppendOnlyWithoutReset ==
    [][(user_point_events' # <<>> \/ user_point_events = <<>>)
          => C30_RowsAreKept /\ C30_OneRowPerAward]_vars

(***************************************************************************)
(* Claims about who the referral bonus goes to                             *)
(***************************************************************************)
EventsOf(upe, address) == SelectSeq(upe, LAMBDA ev : ev.address = address)

\* what an activation of `user_address` that turned `before` into `after` did
ActivationCreditsReferrer(before, after, user_address) ==
    LET referrer_address == before.ur[user_address].referrer_address
    IN  after.ur[user_address].is_activated # before.ur[user_address].is_activated
          => /\ after.up[user_address] = before.up[user_address]
             /\ EventsOf(after.upe, user_address) = EventsOf(before.upe, user_address)
             /\ Len(after.upe) = Len(before.upe) + 1
             /\ after.upe[Len(after.upe)].event_type = "referral"
             /\ after.upe[Len(after.upe)].address = referrer_address
             /\ after.up[referrer_address].total_points
                    > before.up[referrer_address].total_points

\* C31: a referral activation credits the referrer only: the step leaves the
\* activating user's user_points row and point events as they were, and the one
\* 'referral' point event it writes carries the referrer's address.  Checked
\* for the calculator's per-toss activation applied to every reached ledger and
\* for every step of ReferralSystem.check_and_activate_referral.
C31_BonusGoesToReferrer ==
    /\ [](\A a \in Addresses :
            ActivationCreditsReferrer(LedgerDb,
                                      CheckAndActivateReferralTransaction(LedgerDb, a), a))
    /\ [][\A a \in Addresses :
             tables' = tables => ActivationCreditsReferrer(LedgerDb, LedgerDb', a)]_vars

\* C31 witness: a referred user with a processed toss is activated, the
\* 'referral' event is the referrer's and the user has no 'referral' event.
C31_Witness ==
    \E a \in Addresses :
        /\ user_referrals[a].is_activated = 1
        /\ \E i \in 1..Len(tables["CoinTossed"]) :
              tables["CoinTossed"][i].addr = a /\ tables["CoinTossed"][i].points_processed = 1
        /\ \E i \in 1..Len(user_point_events) :
              /\ user_point_events[i].tx_hash = ReferralTx(a)
              /\ user_point_events[i].address = user_referrals[a].referrer_address
              /\ user_point_events[i].address # a
        /\ \A i \in 1..Len(user_point_events) :
              user_point_events[i].address = a => user_point_events[i].event_type # "referral"

(***************************************************************************)
(* Claims about the termination of process_block_range                     *)
(***************************************************************************)
Width(r) == r.e - r.s + 1

\* at most Width + 3 try_get_logs calls and Width try_get_block calls, each of
\* at most max_retries upstream calls
CallBound(width) == max_retries * (2 * width + 3)

\* C32: process_block_range(start, end) terminates for every range and every
\* pattern of upstream failures: never more than two frames are alive (a
\* sub-range of minimum width is not bisected again), the upstream calls stay
\* below a bound in the range width and max_retries, and the call returns.
C32_ProcessBlockRangeTerminates ==
    /\ [](Len(pending) <= 2 /\ fetch.calls <= CallBound(Width(range)))
    /\ <>(fetch.pc = "returned")

\* C32 witness: a call on a range wider than two minimum steps returned True
\* after its range fetch and a fetch of the first sub-range had failed and
\* blocks had been processed one at a time.
C32_Witness ==
    /\ fetch.pc = "returned"
    /\ fetch.result
    /\ Width(range) > 2 * min_batch_size
    /\ block_num = MidBlock(range.s)
    /\ fetch.calls > Width(range)

(***************************************************************************)
(* Claims about progress                                                   *)
(***************************************************************************)
\* C33: once every chain-head read, log fetch, block fetch and storage write
\* succeeds and the chain head has stopped, a poll loop that keeps running
\* brings the checkpoint to chain_head - 5, where it stays.
C33_CheckpointReachesSafeBlock == <>[](last_block = chain_head - REORG_MARGIN)

\* C33 witness: after failures and a crash the checkpoint stands at the safe
\* block of the final chain head and the loop idles.
C33_Witness ==
    /\ pc = "poll"
    /\ chain_head = MaxHead
    /\ failures = MaxFailures
    /\ crashes = MaxCrashes
    /\ last_block = chain_head - REORG_MARGIN
    /\ last_indexed_block = last_block

\* the row r of an event table has its point event of type event_type
Awarded(event_type, r) ==
    \E i \in 1..Len(user_point_events) :
        /\ user_point_events[i].event_type = event_type
        /\ user_point_events[i].tx_hash = r.tx
        /\ user_point_events[i].address = r.addr

AllAwarded ==
    /\ \A i \in 1..Len(tables["CoinTossed"]) : Awarded("toss", tables["CoinTossed"][i])
    /\ \A i \in 1..Len(tables["LuckyWinnerSelected"]) :
          Awarded("winner", tables["LuckyWinnerSelected"][i])

\* C34: with run_points_calculation invoked again and again and storage errors
\* that stop, every stored CoinTossed and LuckyWinnerSelected row is eventually
\* awarded, also when more rows are pending than one batch selects and the
\* indexer appends rows between the invocations.
C34_EveryRowIsAwarded == <>[]AllAwarded

\* C34 witness: three toss rows, more than one batch selects, were all stored
\* before the first award, and every stored row has been awarded.
C34_Witness ==
    /\ fed = Len(IngestBatches)
    /\ Len(tables["CoinTossed"]) > BatchLimit
    /\ AllAwarded
    /\ user_point_events[1].tx_hash = tables["CoinTossed"][1].tx
    /\ calculator_state.last_processed_toss_id = Len(tables["CoinTossed"])
    /\ chist.rolled_back = FALSE

(***************************************************************************)
(* Claims about the points_processed flag and the cursor                   *)
(***************************************************************************)
FlagAndCursorAgree(table, event_type, cursor) ==
    \A i \in 1..Len(table) :
        /\ table[i].id <= cursor => table[i].points_processed = 1
        /\ table[i].points_processed = 1 <=> Awarded(event_type, table[i])

\* C35: in every state reached by calculator runs every coin_tossed_events row
\* with id <= last_processed_toss_id has points_processed = 1, and a row has
\* points_processed = 1 exactly when its 'toss' point event exists; likewise
\* for the winner rows and last_processed_winner_id.
C35_FlagAndCursorConsistent ==
    /\ FlagAndCursorAgree(tables["CoinTossed"], "toss",
                          calculator_state.last_processed_toss_id)
    /\ FlagAndCursorAgree(tables["LuckyWinnerSelected"], "winner",
                          calculator_state.last_processed_winner_id)

\* C35 witness: the calculator died between a COMMIT and its cursor update, so
\* a processed toss row lies beyond the toss cursor, next to an unprocessed one.
C35_Witness ==
    /\ chist.crashed
    /\ \E i, j \in 1..Len(tables["CoinTossed"]) :
          /\ tables["CoinTossed"][i].points_processed = 1
          /\ tables["CoinTossed"][i].id > calculator_state.last_processed_toss_id
          /\ tables["CoinTossed"][j].points_processed = 0
    /\ calculator_state.last_processed_winner_id > 0

(***************************************************************************)
(* Two apply_referral_code calls running side by side, each on its own     *)
(* SQLite connection (rollback journal, the default: no PRAGMA in the      *)
(* source).  lock is the lock a connection holds between two statements:   *)
(* ReferralSystem runs its statements between BEGIN TRANSACTION and        *)
(* commit, so its SELECT leaves a SHARED lock and its first write takes    *)
(* the RESERVED lock; PointsCalculator never begins a transaction before   *)
(* its SELECTs, so each of them is a transaction of its own and only the   *)
(* UPDATE with its commit takes locks, all within one step.                *)
(***************************************************************************)
ApplyOps == {"PointsCalculator.apply_referral_code", "ReferralSystem.apply_referral_code"}

Session(op, user_address, referral_code) ==
    [op |-> op, user_address |-> user_address, referral_code |-> referral_code,
     pc |-> "check", lock |-> "none", referrer_address |-> NoAddr, new_code |-> NoCode,
     ok |-> FALSE, msg |-> "none"]

InitApplyRace ==
    /\ chain_head = Head0
    /\ last_block = START_BLOCK
    /\ tables = EmptyTables
    /\ last_indexed_block = GetLastIndexedBlock(START_BLOCK)
    /\ current_batch_size = INITIAL_BATCH_SIZE
    /\ pc = "poll"
    /\ safe_block = 0
    /\ range = NoRange
    /\ pending = <<>>
    /\ block_num = 0
    /\ success = TRUE
    /\ failures = 0
    /\ crashes = 0
    /\ fetch = NoFetch
    /\ hist = NewCycle
    /\ lp = NoReplay
    /\ user_points = [a \in RefAddresses |-> NoPoints]
    /\ user_point_events = <<>>
    /\ \E applicant \in {NoReferral, NewReferral("K3")} :
          user_referrals = [a \in RefAddresses |->
                               CASE a = "a1" -> NewReferral("K1")
                                 [] a = "a2" -> NewReferral("K2")
                                 [] OTHER    -> applicant]
    /\ calculator_state = ZeroState
    /\ calc = CalcIdle
    /\ fed = 0
    /\ chist = NoCalcHistory
    /\ \E op1 \in ApplyOps, op2 \in ApplyOps, code1 \in {"K1", "K2"} :
          sessions = << Session(op1, "a3", code1), Session(op2, "a3", "K2") >>

raceRest == <<idxVars, lp, fetch, user_points, user_point_events, calculator_state, calc,
              fed, chist>>

OthersHold(i, locks) == \E j \in DOMAIN sessions : j # i /\ sessions[j].lock \in locks

InTransaction(i) == sessions[i].op = "ReferralSystem.apply_referral_code"

Returned(s, ok, msg) == [s EXCEPT !.pc = "returned", !.lock = "none", !.ok = ok, !.msg = msg]

\* the SELECTs and the three checks of apply_referral_code
ApplyCheck(i) ==
    LET s == sessions[i]
        rejection == Rejection(user_referrals, s.user_address, s.referral_code)
    IN  /\ s.pc = "check"
        /\ sessions' =
              [sessions EXCEPT ![i] =
                  IF rejection # "none"
                  THEN Returned(s, FALSE, rejection)
                  ELSE [s EXCEPT !.pc = "insert",
                                 !.lock = IF InTransaction(i) THEN "shared" ELSE "none",
                                 !.referrer_address =
                                     CHOOSE a \in ReferrerByCode(user_referrals,
                                                                 s.referral_code) : TRUE]]
        /\ UNCHANGED <<raceRest, user_referrals>>

\* SELECT COUNT(*) ... and the record of the applicant created when there is
\* none: PointsCalculator.create_user_referral commits it on a connection of
\* its own, ReferralSystem inserts it inside its transaction
ApplyInsert(i) ==
    LET s == sessions[i]
        missing == ~user_referrals[s.user_address].exists
    IN  /\ s.pc = "insert"
        /\ IF ~missing
           THEN /\ sessions' = [sessions EXCEPT ![i].pc = "update"]
                /\ UNCHANGED user_referrals
           ELSE \E new_code \in Codes \ UsedCodes :
                  IF InTransaction(i)
                  THEN /\ ~OthersHold(i, {"reserved"})
                       /\ sessions' = [sessions EXCEPT ![i].pc = "update",
                                                        ![i].lock = "reserved",
                                                        ![i].new_code = new_code]
                       /\ UNCHANGED user_referrals
                  ELSE /\ ~OthersHold(i, {"shared", "reserved"})
                       /\ sessions' = [sessions EXCEPT ![i].pc = "update"]
                       /\ user_referrals' = InsertReferral(user_referrals, s.user_address,
                                                           new_code)
        /\ UNCHANGED raceRest

\* UPDATE user_referrals SET referrer_address = ? WHERE address = ?, which
\* PointsCalculator commits at once and ReferralSystem in ApplyCommit
ApplyUpdate(i) ==
    LET s == sessions[i]
    IN  /\ s.pc = "update"
        /\ IF InTransaction(i)
           THEN /\ ~OthersHold(i, {"reserved"})
                /\ sessions' = [sessions EXCEPT ![i].pc = "commit", ![i].lock = "reserved"]
                /\ UNCHANGED user_referrals
           ELSE /\ ~OthersHold(i, {"shared", "reserved"})
                /\ sessions' = [sessions EXCEPT ![i] =
                                    Returned(s, TRUE, "Referral code applied successfully")]
                /\ user_referrals' = SetReferrer(user_referrals, s.user_address,
                                                 s.referrer_address)
        /\ UNCHANGED raceRest

\* conn.commit() of ReferralSystem.apply_referral_code: needs the EXCLUSIVE lock
ApplyCommit(i) ==
    LET s == sessions[i]
    IN  /\ s.pc = "commit"
        /\ ~OthersHold(i, {"shared", "reserved"})
        /\ sessions' = [sessions EXCEPT ![i] =
                            Returned(s, TRUE, "Referral code applied successfully")]
        /\ user_referrals' = SetReferrer(InsertReferral(user_referrals, s.user_address,
                                                        s.new_code),
                                         s.user_address, s.referrer_address)
        /\ UNCHANGED raceRest

\* "database is locked": a write or a commit that another connection's lock
\* holds up raises; except Exception: rollback and (False, "Error: ...")
ApplyBusy(i) ==
    LET s == sessions[i]
    IN  /\ \/ s.pc \in {"insert", "update"} /\ InTransaction(i) /\ OthersHold(i, {"reserved"})
           \/ s.pc = "insert" /\ ~InTransaction(i) /\ ~user_referrals[s.user_address].exists
                /\ OthersHold(i, {"shared", "reserved"})
           \/ s.pc = "update" /\ ~InTransaction(i) /\ OthersHold(i, {"shared", "reserved"})
           \/ s.pc = "commit" /\ OthersHold(i, {"shared", "reserved"})
        /\ sessions' = [sessions EXCEPT ![i] = Returned(s, FALSE, "Error")]
        /\ UNCHANGED <<raceRest, user_referrals>>

NextApplyRace ==
    \/ \E i \in DOMAIN sessions : ApplyCheck(i)
    \/ \E i \in DOMAIN sessions : ApplyInsert(i)
    \/ \E i \in DOMAIN sessions : ApplyUpdate(i)
    \/ \E i \in DOMAIN sessions : ApplyCommit(i)
    \/ \E i \in DOMAIN sessions : ApplyBusy(i)

SpecApplyRace == InitApplyRace /\ [][NextApplyRace]_vars

(***************************************************************************)
(* Claims about concurrent referral calls                                  *)
(***************************************************************************)
Succeeded == {i \in DOMAIN sessions : sessions[i].pc = "returned" /\ sessions[i].ok}

ReferrerKept ==
    \A a \in DOMAIN user_referrals :
        user_referrals[a].referrer_address # NoAddr
          => user_referrals'[a].referrer_address = user_referrals[a].referrer_address

DifferentReferrers == sessions[1].referral_code # sessions[2].referral_code

\* C36: of two concurrent apply_referral_code calls for one user that carry the
\* codes of two different referrers at most one reports success, and a
\* referrer_address that has been written is never overwritten by the other.
C36_OneApplyWins ==
    /\ [](DifferentReferrers => Cardinality(Succeeded) <= 1)
    /\ [][DifferentReferrers => ReferrerKept]_vars

\* the same for two calls of ReferralSystem.apply_referral_code
C36_OneApplyWinsInTransactions ==
    /\ []((DifferentReferrers /\ \A i \in DOMAIN sessions : InTransaction(i))
            => Cardinality(Succeeded) <= 1)
    /\ [][(DifferentReferrers /\ \A i \in DOMAIN sessions : InTransaction(i))
            => ReferrerKept]_vars

(***************************************************************************)
(* The activation paths running side by side for one referred user.  The   *)
(* calculator reads is_activated inside the transaction of its batch,      *)
(* after its first write has taken the RESERVED lock, so its batch is one  *)
(* step.  ReferralSystem.check_and_activate_referral and process_referrals *)
(* read with a SELECT before their BEGIN TRANSACTION and write later.      *)
(***************************************************************************)
Racers == 3         \* activation calls running side by side

ActivateOps ==
    {"PointsCalculator.process_coin_toss_events",
     "ReferralSystem.check_and_activate_referral",
     "process_referrals"}

InitActivateRace ==
    /\ chain_head = Head0
    /\ last_block = START_BLOCK
    /\ tables = process_logs(EmptyTables,
                             << MkLog("CoinTossed", "t4", "p1", "a2", "", 9, 130) >>,
                             Timestamps({9}, {}), {})
    /\ last_indexed_block = GetLastIndexedBlock(START_BLOCK)
    /\ current_batch_size = INITIAL_BATCH_SIZE
    /\ pc = "poll"
    /\ safe_block = 0
    /\ range = NoRange
    /\ pending = <<>>
    /\ block_num = 0
    /\ success = TRUE
    /\ failures = 0
    /\ crashes = 0
    /\ fetch = NoFetch
    /\ hist = NewCycle
    /\ lp = NoReplay
    /\ user_points = EnsureUser([a \in Addresses |-> NoPoints], "a1", 0, 0)
    /\ user_point_events = <<>>
    /\ user_referrals = [a \in Addresses |->
                            IF a = "a1"
                            THEN NewReferral("K1")
                            ELSE [NewReferral("K2") EXCEPT !.referrer_address = "a1"]]
    /\ calculator_state = ZeroState
    /\ calc = CalcIdle
    /\ fed = 0
    /\ chist = NoCalcHistory
    /\ \E ops \in [1..Racers -> ActivateOps] :
          sessions = [i \in 1..Racers |-> Session(ops[i], "a2", NoCode)]

activateRest == <<chain_head, last_block, last_indexed_block, current_batch_size, pc,
                 safe_block, range, pending, block_num, success, failures, crashes, hist,
                 lp, fetch, calc, fed, chist>>

\* the UPDATE, INSERT OR IGNORE, UPDATE and INSERT between BEGIN TRANSACTION and
\* commit of check_and_activate_referral and of process_referrals: none of
\* them looks at is_activated
ActivateReferral(db, user_address, referrer_address) ==
    LET up1 == EnsureUser(db.up, referrer_address, REFERRAL_BONUS_POINTS,
                          REFERRAL_BONUS_POINTS)
    IN  [db EXCEPT !.ur = [@ EXCEPT ![user_address].is_activated = 1,
                                    ![user_address].activated_at = "set"],
                   !.up = [up1 EXCEPT ![referrer_address].total_points =
                                          @ + REFERRAL_BONUS_POINTS,
                                      ![referrer_address].referral_points =
                                          @ + REFERRAL_BONUS_POINTS],
                   !.upe = Append(@, PointEvent(referrer_address, "referral",
                                                REFERRAL_BONUS_POINTS,
                                                ReferralTx(user_address), "referral"))]

\* process_coin_toss_events: the batch with its per-toss activation, its
\* COMMIT and update_calculator_state
ActivateInBatch(i) ==
    LET s == sessions[i]
        last_id == calculator_state.last_processed_toss_id
        events == SelectUnprocessed(tables["CoinTossed"], last_id)
        db == AwardTosses(LedgerDb, events, 1)
    IN  /\ s.op = "PointsCalculator.process_coin_toss_events"
        /\ s.pc = "check"
        /\ user_points' = db.up
        /\ user_point_events' = db.upe
        /\ user_referrals' = db.ur
        /\ tables' = [tables EXCEPT !["CoinTossed"] = db.toss]
        /\ calculator_state' =
              [calculator_state EXCEPT !.last_processed_toss_id = MaxId(last_id, events)]
        /\ sessions' = [sessions EXCEPT ![i] = Returned(s, events # <<>>, "processed")]
        /\ UNCHANGED activateRest

\* the SELECT of the pending referral: check_and_activate_referral reads the
\* record of the user, process_referrals the list of pending referrals and
\* the toss count of each user
ActivateCheck(i) ==
    LET s == sessions[i]
        rec == user_referrals[s.user_address]
        is_pending == rec.exists /\ rec.referrer_address # NoAddr /\ rec.is_activated # 1
        toss_count == Cardinality({r \in 1..Len(tables["CoinTossed"]) :
                                      tables["CoinTossed"][r].addr = s.user_address})
        goes_on == is_pending /\ (s.op = "process_referrals" => toss_count > 0)
    IN  /\ s.op # "PointsCalculator.process_coin_toss_events"
        /\ s.pc = "check"
        /\ sessions' = [sessions EXCEPT ![i] =
                            IF goes_on
                            THEN [s EXCEPT !.pc = "write",
                                           !.referrer_address = rec.referrer_address]
                            ELSE Returned(s, FALSE, "nothing to do")]
        /\ UNCHANGED <<activateRest, tables, user_points, user_point_events,
                       user_referrals, calculator_state>>

\* BEGIN TRANSACTION ... commit of check_and_activate_referral / process_referrals
ActivateWrite(i) ==
    LET s == sessions[i]
        db == ActivateReferral(LedgerDb, s.user_address, s.referrer_address)
    IN  /\ s.pc = "write"
        /\ user_points' = db.up
        /\ user_point_events' = db.upe
        /\ user_referrals' = db.ur
        /\ sessions' = [sessions EXCEPT ![i] = Returned(s, TRUE, "activated")]
        /\ UNCHANGED <<activateRest, tables, calculator_state>>

NextActivateRace ==
    \/ \E i \in DOMAIN sessions : ActivateInBatch(i)
    \/ \E i \in DOMAIN sessions : ActivateCheck(i)
    \/ \E i \in DOMAIN sessions : ActivateWrite(i)

SpecActivateRace == InitActivateRace /\ [][NextActivateRace]_vars

Referees(ur, referrer_address) ==
    {u \in DOMAIN ur : ur[u].referrer_address = referrer_address}

ActivatedOnce ==
    /\ \A u \in Addresses : Cardinality(ReferralEventsFor(user_point_events, u)) <= 1
    /\ \A r \in Addresses :
          ReferralCredit(user_points, r)
              <= REFERRAL_BONUS_POINTS * Cardinality(Referees(user_referrals, r))

\* C37: under any interleaving of the activation paths for one referred user
\* (the calculator's per-toss activation, check_and_activate_referral and
\* process_referrals) the referrer is credited the bonus at most once and at
\* most one 'referral' point event is written for that user.
C37_OneActivationWins == ActivatedOnce

\* the same when every path is the calculator's
C37_OneActivationInBatches ==
    (\A i \in DOMAIN sessions : sessions[i].op = "PointsCalculator.process_coin_toss_events")
        => ActivatedOnce

(***************************************************************************)
(* recalculate_points.py: the ledger rebuilt from the stored rows, next to *)
(* the incremental calculator                                              *)
(***************************************************************************)
\* max(1, int(float(amount) / 10**18 * TOSS_POINTS_MULTIPLIER))
RecalculatedTossPoints(amount) == Max(1, TossPoints(amount))

\* process_toss_events of recalculate_points.py: every row in id order, the
\* INSERT OR IGNORE, the UPDATE and the 'toss' point event of each; no
\* points_processed flag is written and no referral is looked at
RECURSIVE RebuildTosses(_, _, _)
RebuildTosses(db, events, i) ==
    IF i > Len(events)
    THEN db
    ELSE RebuildTosses(AddUserPointsTransaction(db, events[i].addr, "toss",
                                                RecalculatedTossPoints(events[i].amount),
                                                events[i].tx, events[i].pond),
                       events, i + 1)

\* process_winner_events of recalculate_points.py
RECURSIVE RebuildWinners(_, _, _)
RebuildWinners(db, events, i) ==
    IF i > Len(events)
    THEN db
    ELSE RebuildWinners(AddUserPointsTransaction(db, events[i].addr, "winner", WIN_POINTS,
                                                 events[i].tx, events[i].pond),
                        events, i + 1)

\* SELECT ... WHERE ur.referrer_address IS NOT NULL AND ur.is_activated = 0
PendingReferrals(ur) ==
    {u \in DOMAIN ur : ur[u].exists /\ ur[u].referrer_address # NoAddr
                                    /\ ur[u].is_activated = 0}

\* the `for referral in pending_referrals` loop of process_referrals
RECURSIVE ProcessReferrals(_, _)
ProcessReferrals(db, todo) ==
    IF todo = {}
    THEN db
    ELSE LET user_address == CHOOSE u \in todo : TRUE
             toss_count == Cardinality({r \in 1..Len(db.toss) :
                                           db.toss[r].addr = user_address})
             d1 == IF toss_count > 0
                   THEN ActivateReferral(db, user_address, db.ur[user_address].referrer_address)
                   ELSE db
         IN  ProcessReferrals(d1, todo \ {user_address})

\* steps 1 to 4 of recalculate_all_points
RecalculateAll(db) ==
    LET d0 == [db EXCEPT !.up = [a \in DOMAIN db.up |-> NoPoints], !.upe = <<>>]
        d1 == RebuildTosses(d0, db.toss, 1)
        d2 == RebuildWinners(d1, db.win, 1)
    IN  ProcessReferrals(d2, PendingReferrals(d2.ur))

\* recalculate_all_points, with step 5 (update_calculator_state)
RecalculateAllPoints ==
    LET db == RecalculateAll(LedgerDb)
    IN  /\ user_points' = db.up
        /\ user_point_events' = db.upe
        /\ user_referrals' = db.ur
        /\ calculator_state' =
              [last_processed_toss_id |-> MaxId(0, tables["CoinTossed"]),
               last_processed_winner_id |-> MaxId(0, tables["LuckyWinnerSelected"])]
        /\ UNCHANGED <<engineRest, tables, failures, crashes, calc, fed, chist>>

\* a2 was referred by a1 before the first toss is stored
InitRecalc ==
    /\ chain_head = Head0
    /\ last_block = START_BLOCK
    /\ tables = EmptyTables
    /\ last_indexed_block = GetLastIndexedBlock(START_BLOCK)
    /\ current_batch_size = INITIAL_BATCH_SIZE
    /\ pc = "poll"
    /\ safe_block = 0
    /\ range = NoRange
    /\ pending = <<>>
    /\ block_num = 0
    /\ success = TRUE
    /\ failures = 0
    /\ crashes = 0
    /\ fetch = NoFetch
    /\ hist = NewCycle
    /\ lp = NoReplay
    /\ user_points = [a \in Addresses |-> NoPoints]
    /\ user_point_events = <<>>
    /\ user_referrals = [a \in Addresses |->
                            IF a = "a1"
                            THEN NewReferral("K1")
                            ELSE [NewReferral("K2") EXCEPT !.referrer_address = "a1"]]
    /\ calculator_state = ZeroState
    /\ calc = CalcIdle
    /\ fed = 0
    /\ chist = NoCalcHistory
    /\ sessions = NoSessions

NextRecalc ==
    \/ IndexerCommit
    \/ TossBatch
    \/ TossCursor
    \/ WinnerBatch
    \/ WinnerCursor
    \/ RecalculateAllPoints

SpecRecalc == InitRecalc /\ [][NextRecalc]_vars

Unflagged(table) == [i \in 1..Len(table) |-> [table[i] EXCEPT !.points_processed = 0]]

\* run_points_calculation repeated until neither scan finds a row
RECURSIVE RunUntilNothingUnprocessed(_, _)
RunUntilNothingUnprocessed(db, state) ==
    LET tosses == SelectUnprocessed(db.toss, state.last_processed_toss_id)
        d1 == AwardTosses(db, tosses, 1)
        s1 == [state EXCEPT !.last_processed_toss_id = MaxId(@, tosses)]
        winners == SelectUnprocessed(d1.win, s1.last_processed_winner_id)
        d2 == AwardWinners(d1, winners, 1)
        s2 == [s1 EXCEPT !.last_processed_winner_id = MaxId(@, winners)]
    IN  IF tosses = <<>> /\ winners = <<>>
        THEN db
        ELSE RunUntilNothingUnprocessed(d2, s2)

\* the stored rows of this state given to the calculator with an empty ledger
IncrementalLedger ==
    RunUntilNothingUnprocessed(
        [up |-> [a \in Addresses |-> NoPoints], upe |-> <<>>, ur |-> user_referrals,
         toss |-> Unflagged(tables["CoinTossed"]),
         win |-> Unflagged(tables["LuckyWinnerSelected"])],
        ZeroState).up

RecalculatedLedger == RecalculateAll(LedgerDb).up

\* C38: for the stored rows of any state, recalculate_all_points gives every
\* address the same toss_points and the same winner_points as the incremental
\* run_points_calculation repeated until nothing is left unprocessed.
C38_RecalculationMatchesIncremental ==
    \A a \in Addresses :
       /\ RecalculatedLedger[a].toss_points = IncrementalLedger[a].toss_points
       /\ RecalculatedLedger[a].winner_points = IncrementalLedger[a].winner_points

\* the winner half alone
C38_WinnerPointsMatch ==
    \A a \in Addresses :
       RecalculatedLedger[a].winner_points = IncrementalLedger[a].winner_points

\* the bonus of user_address is in the ledger db: one 'referral' point event,
\* credited to the referrer, and the referrer's total holds it
BonusRecorded(db, user_address) ==
    LET referrer_address == db.ur[user_address].referrer_address
        rows == {i \in 1..Len(db.upe) : /\ db.upe[i].event_type = "referral"
                                         /\ db.upe[i].tx_hash = ReferralTx(user_address)}
    IN  /\ Cardinality(rows) = 1
        /\ \A i \in rows : db.upe[i].address = referrer_address
        /\ db.up[referrer_address].total_points >=
              db.up[referrer_address].toss_points + db.up[referrer_address].winner_points
                 + REFERRAL_BONUS_POINTS

\* C39: after recalculate_all_points has run, every referral record with
\* is_activated = 1 has exactly one 'referral' point event credited to its
\* referrer and that bonus is part of the referrer's total_points, also for a
\* referral that was activated before the reset.
C39_RebuildKeepsActivatedBonuses ==
    \A u \in Addresses :
       RecalculateAll(LedgerDb).ur[u].is_activated = 1
           => BonusRecorded(RecalculateAll(LedgerDb), u)

\* the same for the referrals that are still pending when the rebuild starts
C39_RebuildActivatesPending ==
    \A u \in PendingReferrals(user_referrals) :
       RecalculateAll(LedgerDb).ur[u].is_activated = 1
           => BonusRecorded(RecalculateAll(LedgerDb), u)

C39_PendingWitness ==
    \E u \in PendingReferrals(user_referrals) :
       RecalculateAll(LedgerDb).ur[u].is_activated = 1

(***************************************************************************)
(* Claims about the stored block timestamps                                *)
(***************************************************************************)
\* C40: every stored event row carries the block_timestamp of its block: an
\* event whose timestamp lookup failed after all retries is never persisted
\* with a placeholder timestamp (and is not dropped while the checkpoint moves
\* past its block).
C40_StoredTimestampIsBlockTimestamp ==
    \A k \in TrackedKinds :
       \A r \in Range(tables[k]) : r.block_timestamp = BlockTimestamp(r.block_number)

\* the rows process_single_block stores carry the timestamp of their block
C40_FallbackStoresBlockTimestamp ==
    [][pc = "single" =>
          \A k \in TrackedKinds :
             \A r \in Range(tables'[k]) \ Range(tables[k]) :
                r.block_timestamp = BlockTimestamp(r.block_number)]_vars

====
